---- MODULE Spec2Model ----
(***************************************************************************)
(* SmogPing (src/main.go): the probing and event pipeline.                 *)
(*                                                                         *)
(* State: the target files on disk, the registry sp.targets (a struct      *)
(* holding a reference to a Go map, so the map objects live in a heap),    *)
(* the reload goroutine's locals, the DNS refresh goroutine's locals, one  *)
(* record per scheduler goroutine, the batch queue, the sink, the alarm    *)
(* map, the clock and the process lifecycle.                               *)
(***************************************************************************)
EXTENDS Integers, Sequences, FiniteSets, TLC

VARIABLES
    phase,        \* main(): "Loading" | "Resolving" | "Validating" | "Running" | "Draining" | "Exited" | "Failed"
    files,        \* the file system: path -> [readable, Include, Organizations]
    maps,         \* heap of Go map objects: MapIds -> (org name -> sequence of Host)
    targets,      \* sp.targets: [Include, Organizations (a map id)]
    cache,        \* sp.dnsResolver.cache: hostname -> [ResolvedIP, LastChecked, DNSChanges]
    watched,      \* sp.watcher's watch list (set of paths)
    watch,        \* watchFiles goroutine: [pc, events (times of the events waiting), timer, reloadChan, oldTargets, newTargets, originalTargets]
    dns,          \* DNS refresh goroutine: [pc, next (tick), ranged (map id), todo (orgs left in the range loop), checked, errors (counts of the cycle)]
    targetsMux,   \* sp.targetsMux: "free" or the goroutine holding the write lock
    sched,        \* scheduler goroutines: id -> [orgName, host, pc, pingData, pingCount, dataPointStartTime, ...]
    batchPoints,  \* sp.batchPoints
    lastFlush,    \* sp.lastFlush
    sink,         \* the points handed to influxWrite.WritePoint, in order
    batchTimer,   \* batchFlushTimer goroutine: [pc, next (tick)]
    lastAlarms,   \* sp.lastAlarms: hostKey -> time
    alarmsFired,  \* the handler executions started by triggerAlarm, in order
    cancelled,    \* sp.ctx is done
    now,          \* the clock, in seconds
    config,       \* sp.config: [DNSRefresh, AlarmReceiver, PingSource], and dns_refresh as config.toml has it
    influx,       \* the InfluxDB write API: [sent (points of sink handed to the server), closed]
    cwd,          \* the working directory of the process
    burst         \* history of the write events: [start, last (times of the first and the last
                  \* event of the current burst), armedBy (time of the event that set the
                  \* running debounce timer), caused (reloads the timer of this burst has requested)]

vars == <<phase, files, maps, targets, cache, watched, watch, dns, targetsMux, sched,
          batchPoints, lastFlush, sink, batchTimer, lastAlarms, alarmsFired, cancelled, now,
          config, influx, cwd, burst>>

(***************************************************************************)
(* Bounds of the model and the configuration it runs (config.toml).        *)
(***************************************************************************)
DataPointPings == 2        \* config data_point_pings
DataPointTime == 4         \* config data_point_time (s)
MaxConcurrentPings == 1    \* config max_concurrent_pings
InfluxBatchSize == 2       \* config influx_batch_size
AlarmRate == 2             \* config alarm_rate (s)
MaxTime == 3               \* the clock stops advancing here
MaxPoints == 2             \* data points completed per run
InfluxBatchTime == 2       \* config influx_batch_time (s)
DNSRefresh == 2            \* config dns_refresh (s)
UnitsPerMs == 2            \* resolution of time.Duration values: units per millisecond
MaxEvents == 1             \* file events waiting in watcher.Events
NumMaps == 3               \* map objects alive at once

GlobalAlarmReceiver == config.AlarmReceiver        \* config alarm_receiver
GlobalPingSource == config.PingSource              \* config ping_source
noAlarm == FALSE                                   \* --noalarm
targetsFile == "/etc/smogping/targets.toml"        \* -targets
IncPath == "/etc/smogping/inc.toml"

MaxTotalHosts == 10000
debounceDelay == 2         \* watchFiles: seconds
MaxHostsPerOrg == 1000
MaxNameLen == 100
MaxAlarmMs == 10000
MaxAlarmPct == 100
DefaultDNSRefresh == 600   \* setupDNSResolver: seconds, when dns_refresh <= 0

ZeroTime == 0 - 1          \* time.Time{}: before every clock reading
MapIds == 0 .. (NumMaps - 1)
NoMap == 0 - 1

(***************************************************************************)
(* The strings of the model.                                               *)
(***************************************************************************)
OrgOrder == <<"A", "B", "A_x">>
OrgNames == {OrgOrder[i] : i \in 1 .. Len(OrgOrder)}
IPLiterals == {"10.0.0.1", "10.0.0.2", "10.0.0.3", "fe80::1"}
IPv4Literals == {"10.0.0.1", "10.0.0.2", "10.0.0.3"}
WithDot == {"10.0.0.1", "10.0.0.2", "10.0.0.3", "svc.example.test"}
WithLetter == {"fe80::1", "svc.example.test"}
HostnameShaped == {"svc.example.test"}
NameShaped == {"x", "y", "z", "A", "B", "A_x", "x_y"}
IncRel == "inc.toml"                          \* IncPath, written relative to the targets file
TargetsDir == "/etc/smogping/"                \* filepath.Dir(sp.targetsFile)
TomlPaths == {targetsFile, IncPath, IncRel, "/inc.toml"}
AbsPaths == {targetsFile, IncPath, "/inc.toml"}

\* net.ParseIP(address) != nil
ParseIP(address) == address \in IPLiterals

RECURSIVE SeqSum(_)
SeqSum(s) == IF s = <<>> THEN 0 ELSE Head(s) + SeqSum(Tail(s))

Range(s) == {s[i] : i \in 1 .. Len(s)}

Host(name, ip, alarmping, alarmreceiver) ==
    [Name |-> name, IP |-> ip, AlarmPing |-> alarmping, AlarmLoss |-> 0, AlarmJitter |-> 0,
     AlarmReceiver |-> alarmreceiver, PingSource |-> "",
     ResolvedIP |-> "", LastDNSCheck |-> ZeroTime, IsDNSName |-> FALSE]

(***************************************************************************)
(* Validation (pure functions of a decoded file).                          *)
(***************************************************************************)
\* isValidName: non-empty and matching ^[a-zA-Z0-9_\-\s\.]+$
isValidName(name) == name # "" /\ name \in NameShaped

\* isValidIPOrHostname: an IP literal, or a hostname of RFC-1123 labels
isValidIPOrHostname(address) ==
    /\ address # ""
    /\ \/ ParseIP(address)
       \/ Len(address) <= 253 /\ address \in HostnameShaped

\* isValidFilePath: non-empty, no control characters, extension .toml or .tml
isValidFilePath(path) == path # "" /\ path \in TomlPaths

\* loadTargets / validateTargetsContent: relative include paths are joined to
\* the directory of the targets file
ResolveInclude(includeFile) ==
    IF includeFile \in AbsPaths THEN includeFile ELSE TargetsDir \o includeFile

\* the file a path names when it is opened as written: a relative path is
\* relative to the working directory
OpenPath(path) == IF path \in AbsPaths THEN path ELSE cwd \o path

\* validateHost: TRUE iff it adds an error to the validator
validateHost(host) ==
    \/ host.Name = ""
    \/ Len(host.Name) > MaxNameLen
    \/ ~isValidName(host.Name)
    \/ host.IP = ""
    \/ Len(host.IP) > 253
    \/ ~isValidIPOrHostname(host.IP)
    \/ host.AlarmPing < 0 \/ host.AlarmPing > MaxAlarmMs
    \/ host.AlarmLoss < 0 \/ host.AlarmLoss > MaxAlarmPct
    \/ host.AlarmJitter < 0 \/ host.AlarmJitter > MaxAlarmMs
    \/ host.AlarmReceiver # "" /\ Len(host.AlarmReceiver) > 500
    \/ host.PingSource # "" /\ host.PingSource # "default" /\ ~ParseIP(host.PingSource)

\* validateOrganization: TRUE iff it adds an error to the validator. The
\* duplicate check covers the hosts of one organization of ONE file.
validateOrganization(orgName, hosts) ==
    \/ orgName = ""
    \/ Len(orgName) > MaxNameLen
    \/ ~isValidName(orgName)
    \/ /\ Len(hosts) > 0
       /\ \/ Len(hosts) > MaxHostsPerOrg
          \/ \E i \in 1 .. Len(hosts) : validateHost(hosts[i])
          \/ \E i, j \in 1 .. Len(hosts) : i < j /\ hosts[i].Name = hosts[j].Name

\* validateTargetsContent: TRUE iff it returns an error
validateTargetsContent(content, isMain) ==
    \/ /\ isMain
       /\ \E i \in 1 .. Len(content.Include) :
             \/ content.Include[i] = ""
             \/ ~isValidFilePath(ResolveInclude(content.Include[i]))
    \/ isMain /\ DOMAIN content.Organizations = {}
    \/ \E o \in DOMAIN content.Organizations : validateOrganization(o, content.Organizations[o])

\* loadAndValidateTargetsFile: TRUE iff it returns an error (os.Stat,
\* validateFileBasics and toml.DecodeFile are the file's "readable" flag)
loadAndValidateTargetsFile(fs, filename, isMain) ==
    \/ filename \notin DOMAIN fs
    \/ ~fs[filename].readable
    \/ validateTargetsContent(fs[filename], isMain)

\* "Merge organizations" of loadTargets and reloadTargets: the hosts of an
\* organization already present are appended, with no further check
MergeOrganizations(orgs, included) ==
    [o \in (DOMAIN orgs) \cup (DOMAIN included) |->
        IF o \in DOMAIN orgs /\ o \in DOMAIN included THEN orgs[o] \o included[o]
        ELSE IF o \in DOMAIN orgs THEN orgs[o] ELSE included[o]]

\* the include loop of loadTargets (resolve = TRUE) and of reloadTargets
\* (resolve = FALSE: the path is used as written); a failing include is skipped
RECURSIVE LoadIncludes(_, _, _, _)
LoadIncludes(fs, orgs, includes, resolve) ==
    IF includes = <<>> THEN orgs
    ELSE LET f == IF resolve THEN ResolveInclude(Head(includes)) ELSE OpenPath(Head(includes))
         IN  IF loadAndValidateTargetsFile(fs, f, FALSE)
             THEN LoadIncludes(fs, orgs, Tail(includes), resolve)
             ELSE LoadIncludes(fs, MergeOrganizations(orgs, fs[f].Organizations),
                               Tail(includes), resolve)

TotalHosts(orgs) == SeqSum([i \in 1 .. Len(OrgOrder) |->
                       IF OrgOrder[i] \in DOMAIN orgs THEN Len(orgs[OrgOrder[i]]) ELSE 0])

\* validateCompleteTargets: TRUE iff it returns an error. Host names repeated
\* across organizations are a warning only.
validateCompleteTargets(orgs) ==
    \/ DOMAIN orgs = {}
    \/ TotalHosts(orgs) = 0
    \/ TotalHosts(orgs) > MaxTotalHosts

\* the targets of a registry as a sequence of [OrgName, Host] (TargetInfo)
RECURSIVE Flatten(_, _)
Flatten(orgs, order) ==
    IF order = <<>> THEN <<>>
    ELSE LET o == Head(order)
         IN  (IF o \in DOMAIN orgs
              THEN [i \in 1 .. Len(orgs[o]) |-> [OrgName |-> o, Host |-> orgs[o][i]]]
              ELSE <<>>) \o Flatten(orgs, Tail(order))

Targets(orgs) == Flatten(orgs, OrgOrder)

(***************************************************************************)
(* The files the model edits: contents of the targets file and of the one  *)
(* include file.                                                           *)
(***************************************************************************)
hX    == Host("x", "10.0.0.1", 1, "")
hXe   == Host("x", "10.0.0.1", 5, "")            \* x with its alarmping edited
hXdup == Host("x", "10.0.0.2", 1, "")            \* another "x", from the include file
hY    == Host("y", "svc.example.test", 0, "")
hZ    == Host("z", "10.0.0.3", 0, "")
\* x with the three thresholds: alarmping 1 ms, alarmloss 50 %, alarmjitter 1 ms
hT    == [Host("x", "10.0.0.1", 1, "") EXCEPT !.AlarmLoss = 50, !.AlarmJitter = 1]
hOver == Host("x", "10.0.0.1", 1, "/opt/alarm-x.sh")   \* x with a handler of its own
hNone == Host("z", "10.0.0.3", 1, "NONE")              \* z with its alarms suppressed
hUx   == Host("x_y", "10.0.0.1", 1, "")          \* names with an underscore
hUy   == Host("y", "10.0.0.2", 1, "")
hSd   == [Host("x", "10.0.0.1", 0, "") EXCEPT !.PingSource = "default"]
hSo   == [Host("x", "10.0.0.1", 0, "") EXCEPT !.PingSource = "10.0.0.2"]
hYz   == Host("z", "svc.example.test", 0, "")    \* a second target of y's hostname
hYip  == Host("y", "10.0.0.2", 0, "")            \* y given as an IP literal

NoOrgs == [o \in {} |-> <<>>]
File(readable, include, orgs) ==
    [readable |-> readable, Include |-> include, Organizations |-> orgs]

MainXY    == File(TRUE, <<IncPath>>, [o \in {"A"} |-> <<hX, hY>>])
MainYZ    == File(TRUE, <<IncPath>>, [o \in {"A"} |-> <<hY, hZ>>])
MainX     == File(TRUE, <<IncPath>>, [o \in {"A"} |-> <<hX>>])
MainXe    == File(TRUE, <<IncPath>>, [o \in {"A"} |-> <<hXe>>])
MainEmpty == File(TRUE, <<IncPath>>, [o \in {"A"} |-> <<>>])
Unreadable == File(FALSE, <<>>, NoOrgs)
IncDup    == File(TRUE, <<>>, [o \in {"A"} |-> <<hXdup>>])
MainY     == File(TRUE, <<IncPath>>, [o \in {"A"} |-> <<hY>>])   \* a hostname target alone
MainT     == File(TRUE, <<IncPath>>, [o \in {"A"} |-> <<hT>>])
MainOverNone == File(TRUE, <<IncPath>>, [o \in {"A"} |-> <<hOver, hNone>>])
MainXNone == File(TRUE, <<IncPath>>, [o \in {"A"} |-> <<hX, hNone>>])
\* targets (A, x_y) and (A_x, y)
MainUnderscore == File(TRUE, <<IncPath>>,
                       [o \in {"A", "A_x"} |-> IF o = "A" THEN <<hUx>> ELSE <<hUy>>])
\* x with pingsource "default", with an address of its own, and z with none
SourceMains == {File(TRUE, <<IncPath>>, [o \in {"A"} |-> <<h>>]) : h \in {hSd, hSo, hZ}}
MainZ     == File(TRUE, <<IncPath>>, [o \in {"A"} |-> <<hZ>>])
MainYY    == File(TRUE, <<IncPath>>, [o \in {"A"} |-> <<hY, hYz>>])
MainZY    == File(TRUE, <<IncPath>>, [o \in {"A"} |-> <<hZ, hYip>>])
\* five targets, one more than max_concurrent_pings x datapoint_time allows
IncZ      == File(TRUE, <<>>, [o \in {"A"} |-> <<hZ>>])
MainRel   == File(TRUE, <<IncRel>>, [o \in {"A"} |-> <<hX>>])   \* the include given as a relative path
MainUa    == File(TRUE, <<IncPath>>, [o \in {"A"} |-> <<hUx>>])                       \* A / x_y
MainUb    == File(TRUE, <<IncPath>>, [o \in {"A_x"} |-> <<Host("y", "10.0.0.1", 1, "")>>])  \* A_x / y
MainRelY  == File(TRUE, <<IncRel>>, [o \in {"A"} |-> <<hYip>>])   \* y, the include relative
MainXn    == File(TRUE, <<>>, [o \in {"A"} |-> <<hX>>])          \* x, no include
MainXZY   == File(TRUE, <<IncPath>>, [o \in {"A"} |-> <<hX, hZ, hYip>>])   \* three targets
MainBig   == File(TRUE, <<IncPath>>,
                  [o \in {"A"} |-> <<hX, hYip, hZ,
                                     Host("A", "fe80::1", 0, ""), Host("B", "10.0.0.3", 0, "")>>])

MainContents == {MainXY, MainYZ, MainX, MainXe, MainEmpty, Unreadable}
IncContents == {IncDup, Unreadable}

\* what net.Resolver.LookupHost can answer
Lookups == { [err |-> TRUE,  ips |-> <<>>],
             [err |-> FALSE, ips |-> <<"10.0.0.2">>],
             [err |-> FALSE, ips |-> <<"fe80::1", "10.0.0.3">>] }

(***************************************************************************)
(* DNS                                                                     *)
(***************************************************************************)
\* isDNSName: not an IP literal, and contains a dot and an ASCII letter
isDNSName(address) ==
    IF ParseIP(address) THEN FALSE
    ELSE address \in WithDot /\ address \in WithLetter

\* resolveDNSName on the answer of LookupHost: the first IPv4 address, else
\* the first address
resolveDNSName(lookup) ==
    IF lookup.err \/ lookup.ips = <<>> THEN [err |-> TRUE, ip |-> ""]
    ELSE LET v4 == {i \in 1 .. Len(lookup.ips) : lookup.ips[i] \in IPv4Literals}
         IN  IF v4 # {}
             THEN [err |-> FALSE, ip |-> lookup.ips[CHOOSE i \in v4 : \A j \in v4 : i <= j]]
             ELSE [err |-> FALSE, ip |-> lookup.ips[1]]

DNSCache(ip, t, changes) == [ResolvedIP |-> ip, LastChecked |-> t, DNSChanges |-> changes]

\* performDNSPreflightChecks, the body of the host loop for one organization:
\* answers[i] is LookupHost's answer for hosts[i]
RECURSIVE PreflightHosts(_, _, _)
PreflightHosts(hosts, answers, t) ==
    IF hosts = <<>> THEN <<>>
    ELSE LET host == Head(hosts)
             r == resolveDNSName(Head(answers))
             rest == PreflightHosts(Tail(hosts), Tail(answers), t)
         IN  IF isDNSName(host.IP)
             THEN IF r.err THEN rest
                  ELSE <<[host EXCEPT !.IsDNSName = TRUE, !.ResolvedIP = r.ip,
                                      !.LastDNSCheck = t]>> \o rest
             ELSE <<[host EXCEPT !.IsDNSName = FALSE, !.ResolvedIP = host.IP]>> \o rest

\* the cache entries performDNSPreflightChecks writes for one organization
RECURSIVE PreflightCache(_, _, _, _)
PreflightCache(c, hosts, answers, t) ==
    IF hosts = <<>> THEN c
    ELSE LET host == Head(hosts)
             r == resolveDNSName(Head(answers))
             c2 == IF isDNSName(host.IP) /\ ~r.err
                   THEN [h \in (DOMAIN c) \cup {host.IP} |->
                            IF h = host.IP THEN DNSCache(r.ip, t, 0) ELSE c[h]]
                   ELSE c
         IN  PreflightCache(c2, Tail(hosts), Tail(answers), t)

(***************************************************************************)
(* Initial state: main() has parsed its flags and loaded config.toml; the  *)
(* files on disk are any of the modelled contents.                         *)
(***************************************************************************)
NoTargets == [Include |-> <<>>, Organizations |-> NoMap]

\* config.toml as the model runs it unless a specification says otherwise
DefaultConfig == [dns_refresh |-> DNSRefresh, DNSRefresh |-> DNSRefresh,
                  AlarmReceiver |-> "/usr/local/bin/alarm.sh", PingSource |-> "default"]

\* config.toml with ping_source "default" or an address
SourceConfigs == {[DefaultConfig EXCEPT !.PingSource = a] : a \in {"default", "10.0.0.3"}}

\* config.toml with alarm_receiver empty (absent), or "None"
ReceiverConfigs == {[DefaultConfig EXCEPT !.AlarmReceiver = r] :
                       r \in {"/usr/local/bin/alarm.sh", "", "None"}}

\* config.toml with dns_refresh = 0 (validateConfigFields accepts 0 .. 86400)
ZeroRefreshConfig == [DefaultConfig EXCEPT !.dns_refresh = 0, !.DNSRefresh = 0]

InitIn(mains, incs, configs, dirs) ==
    /\ phase = "Loading"
    /\ config \in configs
    /\ cwd \in dirs
    /\ burst = [start |-> ZeroTime, last |-> ZeroTime, armedBy |-> ZeroTime, caused |-> 0]
    /\ influx = [sent |-> 0, closed |-> FALSE]
    /\ \E m \in mains, i \in incs :
          files = [f \in {targetsFile, IncPath} |-> IF f = targetsFile THEN m ELSE i]
    /\ maps = [m \in MapIds |-> NoOrgs]
    /\ targets = NoTargets
    /\ cache = [h \in {} |-> DNSCache("", 0, 0)]
    /\ watched = {}
    /\ watch = [pc |-> "none", events |-> <<>>, timer |-> ZeroTime, reloadChan |-> FALSE,
                oldTargets |-> NoTargets, newTargets |-> NoTargets,
                originalTargets |-> NoTargets]
    /\ dns = [pc |-> "none", next |-> 0, ranged |-> NoMap, todo |-> {},
              checked |-> 0, errors |-> 0]
    /\ targetsMux = "free"
    /\ sched = <<>>
    /\ batchPoints = <<>>
    /\ lastFlush = ZeroTime
    /\ sink = <<>>
    /\ batchTimer = [pc |-> "none", next |-> 0]
    /\ lastAlarms = [k \in {} |-> 0]
    /\ alarmsFired = <<>>
    /\ cancelled = FALSE
    /\ now = 0

InitConfig(mains, incs, configs) == InitIn(mains, incs, configs, {"/"})

InitWith(mains, incs) == InitConfig(mains, incs, {DefaultConfig})

Init == InitWith(MainContents, IncContents)

(***************************************************************************)
(* Startup: loadTargets, performDNSPreflightChecks, then the rest of       *)
(* main() up to startPingMonitoring.                                       *)
(***************************************************************************)
\* loadTargets: the main file, its includes (paths resolved), the final
\* validation. An error is fatal (log.Fatalf).
loadTargets ==
    /\ phase = "Loading"
    /\ IF loadAndValidateTargetsFile(files, targetsFile, TRUE)
       THEN /\ phase' = "Failed"
            /\ UNCHANGED <<maps, targets>>
       ELSE LET orgs == LoadIncludes(files, files[targetsFile].Organizations,
                                     files[targetsFile].Include, TRUE)
            IN  IF validateCompleteTargets(orgs)
                THEN /\ phase' = "Failed"
                     /\ UNCHANGED <<maps, targets>>
                ELSE /\ phase' = "Resolving"
                     /\ maps' = [maps EXCEPT ![0] = orgs]
                     /\ targets' = [Include |-> files[targetsFile].Include, Organizations |-> 0]
    /\ UNCHANGED <<config, influx, cwd, burst, files, cache, watched, watch, dns, targetsMux, sched, batchPoints,
                   lastFlush, sink, batchTimer, lastAlarms, alarmsFired, cancelled, now>>

\* setupDNSResolver (a dns_refresh of 0 or less becomes the default), then
\* performDNSPreflightChecks (under the write lock, before any other goroutine
\* exists): hostname targets that fail to resolve are dropped
performDNSPreflightChecks ==
    /\ phase = "Resolving"
    /\ config' = [config EXCEPT !.DNSRefresh = IF @ <= 0 THEN DefaultDNSRefresh ELSE @]
    /\ LET orgs == maps[targets.Organizations]
           n == TotalHosts(orgs)
       IN  \E answers \in [DOMAIN orgs -> [1 .. n -> Lookups]] :
             /\ maps' = [maps EXCEPT ![targets.Organizations] =
                           [o \in DOMAIN orgs |->
                               PreflightHosts(orgs[o],
                                   [i \in 1 .. Len(orgs[o]) |-> answers[o][i]], now)]]
             /\ cache' = LET RECURSIVE All(_, _)
                             All(c, order) ==
                                 IF order = <<>> THEN c
                                 ELSE IF Head(order) \in DOMAIN orgs
                                 THEN All(PreflightCache(c, orgs[Head(order)],
                                            [i \in 1 .. Len(orgs[Head(order)]) |->
                                                answers[Head(order)][i]], now),
                                          Tail(order))
                                 ELSE All(c, Tail(order))
                         IN  All(cache, OrgOrder)
    /\ phase' = "Validating"
    /\ UNCHANGED <<influx, cwd, burst, files, targets, watched, watch, dns, targetsMux, sched, batchPoints,
                   lastFlush, sink, batchTimer, lastAlarms, alarmsFired, cancelled, now>>

(***************************************************************************)
(* Data points, the batch and the alarm evaluator (pure parts).            *)
(***************************************************************************)
RTTs == {1 * UnitsPerMs, 5 * UnitsPerMs}     \* the round-trip times a probe can report

NoResult == [AvgRTT |-> 0, PacketLoss |-> [num |-> 0, den |-> 1], Jitter |-> 0,
             Timestamp |-> ZeroTime]

\* time.Duration(math.Sqrt(variance)) with variance = sumsq / n
SqrtDiv(sumsq, n) == CHOOSE r \in 0 .. sumsq : r * r * n <= sumsq /\ (r + 1) * (r + 1) * n > sumsq

\* processDataPoint with the loss taken as the share of answered probes
processDataPointAnswered(rtts, startTime) ==
    LET successfulPings == Len(rtts)
    IN  IF successfulPings = 0
        THEN [AvgRTT |-> 0, PacketLoss |-> [num |-> 0, den |-> 1], Jitter |-> 0,
              Timestamp |-> startTime]
        ELSE LET avgRTT == SeqSum(rtts) \div successfulPings
                 sumsq == SeqSum([i \in 1 .. Len(rtts) |-> (rtts[i] - avgRTT) * (rtts[i] - avgRTT)])
             IN  [AvgRTT |-> avgRTT,
                  PacketLoss |-> [num |-> successfulPings * 100, den |-> DataPointPings],
                  Jitter |-> IF successfulPings > 1 THEN SqrtDiv(sumsq, successfulPings) ELSE 0,
                  Timestamp |-> startTime]

\* processDataPoint: the statistics of one window
processDataPoint(rtts, startTime) ==
    LET successfulPings == Len(rtts)
    IN  IF successfulPings = 0
        THEN [AvgRTT |-> 0, PacketLoss |-> [num |-> 100, den |-> 1], Jitter |-> 0,
              Timestamp |-> startTime]
        ELSE LET avgRTT == SeqSum(rtts) \div successfulPings
                 sumsq == SeqSum([i \in 1 .. Len(rtts) |-> (rtts[i] - avgRTT) * (rtts[i] - avgRTT)])
             IN  [AvgRTT |-> avgRTT,
                  PacketLoss |-> [num |-> (DataPointPings - successfulPings) * 100,
                                  den |-> DataPointPings],
                  Jitter |-> IF successfulPings > 1 THEN SqrtDiv(sumsq, successfulPings) ELSE 0,
                  Timestamp |-> startTime]

\* sendSinglePing: the address the probe goes to
TargetIP(host) == IF host.ResolvedIP = "" THEN host.IP ELSE host.ResolvedIP

\* sendSinglePing: pinger.Source ("" leaves the choice to the OS)
ProbeSource(host) ==
    IF host.PingSource # "" /\ host.PingSource # "default" THEN host.PingSource
    ELSE IF GlobalPingSource # "" /\ GlobalPingSource # "default" THEN GlobalPingSource
    ELSE ""

\* writeToInflux: the source address for the tag
EffectiveSource(host) ==
    IF host.PingSource # "" /\ host.PingSource # "default" THEN host.PingSource
    ELSE IF GlobalPingSource # "" /\ GlobalPingSource # "default" THEN GlobalPingSource
    ELSE "default"

\* writeToInflux: the point built from a result ("" is an absent tag)
Point(orgName, host, result) ==
    [host |-> host.Name, ip |-> host.IP, organization |-> orgName,
     source |-> EffectiveSource(host),
     resolved_ip |-> IF host.IsDNSName /\ TargetIP(host) # host.IP THEN TargetIP(host) ELSE "",
     is_dns_name |-> IF host.IsDNSName /\ TargetIP(host) # host.IP THEN "true" ELSE "false",
     rtt_avg |-> result.AvgRTT, packet_loss |-> result.PacketLoss, jitter |-> result.Jitter,
     Timestamp |-> result.Timestamp]

\* checkAlarms: the key of the rate-limit map
hostKey(orgName, host) == orgName \o "_" \o host.Name

\* alarmReceiver with the global handler taking precedence
alarmReceiverGlobalFirst(host) ==
    IF GlobalAlarmReceiver = "" THEN host.AlarmReceiver ELSE GlobalAlarmReceiver

\* checkAlarms: the receiver in effect
alarmReceiver(host) == IF host.AlarmReceiver = "" THEN GlobalAlarmReceiver ELSE host.AlarmReceiver

\* strings.ToLower(alarmReceiver) == "none"
IsNone(receiver) == receiver \in {"none", "None", "NONE"}

\* alarmReasons with thresholds that trigger when they are reached
alarmReasonsInclusive(host, result) ==
    (IF host.AlarmPing > 0 /\ result.AvgRTT >= host.AlarmPing * UnitsPerMs
     THEN {"ping_time"} ELSE {})
    \cup (IF host.AlarmLoss > 0 /\ result.PacketLoss.num >= host.AlarmLoss * result.PacketLoss.den
          THEN {"packet_loss"} ELSE {})
    \cup (IF host.AlarmJitter > 0 /\ result.Jitter >= host.AlarmJitter * UnitsPerMs
          THEN {"jitter"} ELSE {})

\* checkAlarms: the alarm reasons of a result under a host's thresholds
alarmReasons(host, result) ==
    (IF host.AlarmPing > 0 /\ result.AvgRTT > host.AlarmPing * UnitsPerMs
     THEN {"ping_time"} ELSE {})
    \cup (IF host.AlarmLoss > 0 /\ result.PacketLoss.num > host.AlarmLoss * result.PacketLoss.den
          THEN {"packet_loss"} ELSE {})
    \cup (IF host.AlarmJitter > 0 /\ result.Jitter > host.AlarmJitter * UnitsPerMs
          THEN {"jitter"} ELSE {})

\* checkAlarms: the early returns before the rate limit is looked at
alarmSkipped(host) ==
    \/ host.AlarmPing = 0 /\ host.AlarmLoss = 0 /\ host.AlarmJitter = 0
    \/ alarmReceiver(host) = ""
    \/ IsNone(alarmReceiver(host))

\* a rate limit that still suppresses when exactly alarm_rate has passed
rateLimitedInclusive(alarms, key, t) == key \in DOMAIN alarms /\ t - alarms[key] <= AlarmRate

\* checkAlarms: "exists && time.Since(lastAlarm) < alarm_rate"
rateLimited(alarms, key, t) == key \in DOMAIN alarms /\ t - alarms[key] < AlarmRate

\* a flush that writes every queued point and leaves the queue as it was
flushBatchKeeping ==
    IF batchPoints = <<>>
    THEN UNCHANGED <<batchPoints, sink, lastFlush>>
    ELSE /\ sink' = sink \o batchPoints
         /\ batchPoints' = batchPoints
         /\ lastFlush' = now

\* flushBatchUnsafe: every queued point is written, the queue is reset
flushBatchUnsafe ==
    IF batchPoints = <<>>
    THEN UNCHANGED <<batchPoints, sink, lastFlush>>
    ELSE /\ sink' = sink \o batchPoints
         /\ batchPoints' = <<>>
         /\ lastFlush' = now

(***************************************************************************)
(* main() from validateConfiguration to startPingMonitoring.               *)
(***************************************************************************)
\* startPingMonitoring: pingInterval and the stagger delay, in microseconds
pingInterval == (DataPointTime * 1000000) \div DataPointPings
staggerDelay(totalHosts) ==
    IF pingInterval \div totalHosts > 100000 THEN 100000 ELSE pingInterval \div totalHosts

Scheduler(orgName, host, delay) ==
    [orgName |-> orgName, host |-> host, delay |-> delay, pc |-> "delay",
     pingData |-> <<>>, pingCount |-> 0, dataPointStartTime |-> ZeroTime,
     batchSize |-> 0, result |-> NoResult, reasons |-> {}, source |-> "",
     firstProbe |-> ZeroTime]     \* history, kept where it is read: when the first probe
                                  \* of the open window was issued

\* validateConfiguration, setupInfluxDB, setupBatching, setupAlarms,
\* setupFileWatching, startDNSRefreshMonitoring, startPingMonitoring
startPingMonitoring ==
    /\ phase = "Validating"
    /\ LET orgs == maps[targets.Organizations]
           all == Targets(orgs)
           totalHosts == Len(all)
       IN  \E influxUp \in BOOLEAN :
             IF totalHosts > MaxConcurrentPings * DataPointTime \/ ~influxUp
             THEN /\ phase' = "Failed"
                  /\ UNCHANGED <<watched, watch, dns, sched, batchTimer, lastFlush>>
             ELSE /\ lastFlush' = now
                  /\ batchTimer' = [pc |-> "run", next |-> now + InfluxBatchTime]
                  /\ watched' = {f \in {targetsFile} \cup {OpenPath(i) : i \in Range(targets.Include)} :
                                    f \in DOMAIN files}
                  /\ watch' = [watch EXCEPT !.pc = "idle"]
                  /\ dns' = IF config.DNSRefresh <= 0
                            THEN dns     \* startDNSRefreshMonitoring returns: no task
                            ELSE [dns EXCEPT !.pc = "idle", !.next = now + config.DNSRefresh]
                  /\ IF totalHosts = 0
                     THEN /\ phase' = "Panicked"      \* pingInterval / 0
                          /\ sched' = sched
                     ELSE /\ phase' = "Running"
                          /\ sched' = [k \in 1 .. totalHosts |->
                                          Scheduler(all[k].OrgName, all[k].Host,
                                                    (k - 1) * staggerDelay(totalHosts))]
    /\ UNCHANGED <<config, influx, cwd, burst, files, maps, targets, cache, targetsMux, batchPoints, sink, lastAlarms,
                   alarmsFired, cancelled, now>>

(***************************************************************************)
(* A scheduler goroutine: the stagger delay, then runIndividualPingSchedule *)
(***************************************************************************)
Alive == phase \in {"Running", "Draining"}

PointsMade == Len(sink) + Len(batchPoints)
Closing(s) == sched[s].pc = "pinging" /\ sched[s].pingCount + 1 >= DataPointPings

\* the stagger delay has passed: runIndividualPingSchedule starts
SchedStart(s) ==
    /\ Alive /\ sched[s].pc = "delay"
    /\ sched' = [sched EXCEPT ![s].pc = "select", ![s].dataPointStartTime = now]
    /\ UNCHANGED <<config, influx, cwd, burst, phase, files, maps, targets, cache, watched, watch, dns, targetsMux,
                   batchPoints, lastFlush, sink, batchTimer, lastAlarms, alarmsFired,
                   cancelled, now>>

\* case <-ticker.C: sendSinglePing is called and the probe is in flight
SchedTickNoting(s, points, noted) ==
    /\ Alive /\ sched[s].pc = "select"
    /\ sched[s].pingCount + 1 >= DataPointPings =>
          PointsMade + Cardinality({t \in DOMAIN sched : Closing(t)}) < points
    /\ sched' = [sched EXCEPT ![s].pc = "pinging", ![s].source = ProbeSource(sched[s].host),
                              ![s].firstProbe = IF noted /\ sched[s].pingCount = 0
                                                THEN now ELSE @]
    /\ UNCHANGED <<config, influx, cwd, burst, phase, files, maps, targets, cache, watched, watch, dns, targetsMux,
                   batchPoints, lastFlush, sink, batchTimer, lastAlarms, alarmsFired,
                   cancelled, now>>

SchedTickUpTo(s, points) == SchedTickNoting(s, points, FALSE)

SchedTick(s) == SchedTickUpTo(s, MaxPoints)

\* the window is reset for the next data point
NextWindow(r) ==
    [r EXCEPT !.pc = "select", !.pingData = <<>>, !.pingCount = 0,
              !.dataPointStartTime = now, !.batchSize = 0, !.result = NoResult,
              !.reasons = {}]

\* the probe returns; on the last probe of the window processDataPoint,
\* storeResult and writeToInflux up to the end of its first critical section
SchedPingDone(s, success, rtt) ==
    /\ Alive /\ sched[s].pc = "pinging"
    /\ LET r == sched[s]
           pingData == IF success THEN Append(r.pingData, rtt) ELSE r.pingData
           pingCount == r.pingCount + 1
           result == processDataPoint(pingData, r.dataPointStartTime)
       IN  IF pingCount >= DataPointPings
           THEN /\ batchPoints' = Append(batchPoints, Point(r.orgName, r.host, result))
                /\ sched' = [sched EXCEPT ![s] =
                       [r EXCEPT !.pc = "enqueued", !.pingData = pingData,
                                 !.pingCount = pingCount, !.result = result,
                                 !.batchSize = Len(batchPoints) + 1,
                                 !.firstProbe = ZeroTime]]
           ELSE /\ sched' = [sched EXCEPT ![s] =
                       [r EXCEPT !.pc = "select", !.pingData = pingData,
                                 !.pingCount = pingCount]]
                /\ UNCHANGED batchPoints
    /\ UNCHANGED <<config, influx, cwd, burst, phase, files, maps, targets, cache, watched, watch, dns, targetsMux,
                   lastFlush, sink, batchTimer, lastAlarms, alarmsFired, cancelled, now>>

\* SchedFlush with the size test made strict
SchedFlushStrict(s) ==
    /\ Alive /\ sched[s].pc = "enqueued"
    /\ IF sched[s].batchSize > InfluxBatchSize
       THEN flushBatchUnsafe
       ELSE UNCHANGED <<batchPoints, sink, lastFlush>>
    /\ sched' = [sched EXCEPT ![s] =
                   IF noAlarm THEN NextWindow(sched[s]) ELSE [sched[s] EXCEPT !.pc = "stored"]]
    /\ UNCHANGED <<config, influx, cwd, burst, phase, files, maps, targets, cache, watched, watch, dns, targetsMux,
                   batchTimer, lastAlarms, alarmsFired, cancelled, now>>

\* writeToInflux after the enqueue: flushBatch("size") when the size read
\* under the lock reached influx_batch_size
SchedFlush(s) ==
    /\ Alive /\ sched[s].pc = "enqueued"
    /\ IF sched[s].batchSize >= InfluxBatchSize
       THEN flushBatchUnsafe
       ELSE UNCHANGED <<batchPoints, sink, lastFlush>>
    /\ sched' = [sched EXCEPT ![s] =
                   IF noAlarm THEN NextWindow(sched[s]) ELSE [sched[s] EXCEPT !.pc = "stored"]]
    /\ UNCHANGED <<config, influx, cwd, burst, phase, files, maps, targets, cache, watched, watch, dns, targetsMux,
                   batchTimer, lastAlarms, alarmsFired, cancelled, now>>

\* checkAlarms up to the decision: the early returns, the read of lastAlarms
\* and the rate limit, the thresholds (all of the host the scheduler holds)
SchedCheckAlarms(s) ==
    /\ Alive /\ sched[s].pc = "stored"
    /\ LET r == sched[s]
           reasons == alarmReasons(r.host, r.result)
       IN  sched' = [sched EXCEPT ![s] =
               IF \/ alarmSkipped(r.host)
                  \/ rateLimited(lastAlarms, hostKey(r.orgName, r.host), now)
                  \/ reasons = {}
               THEN NextWindow(r)
               ELSE [r EXCEPT !.pc = "alarm", !.reasons = reasons]]
    /\ UNCHANGED <<config, influx, cwd, burst, phase, files, maps, targets, cache, watched, watch, dns, targetsMux,
                   batchPoints, lastFlush, sink, batchTimer, lastAlarms, alarmsFired,
                   cancelled, now>>

\* triggerAlarm starts the handler; then lastAlarms[hostKey] = time.Now()
AlarmRun(r) ==
    [OrgName |-> r.orgName, Name |-> r.host.Name, IP |-> r.host.IP,
     Receiver |-> alarmReceiver(r.host), Reasons |-> r.reasons,
     AlarmPing |-> r.host.AlarmPing, AlarmLoss |-> r.host.AlarmLoss,
     AlarmJitter |-> r.host.AlarmJitter, RTT |-> r.result.AvgRTT, At |-> now,
     Running |-> TRUE]

SchedTriggerAlarm(s) ==
    /\ Alive /\ sched[s].pc = "alarm"
    /\ LET r == sched[s]
           key == hostKey(r.orgName, r.host)
       IN  /\ alarmsFired' = Append(alarmsFired, AlarmRun(r))
           /\ lastAlarms' = [k \in (DOMAIN lastAlarms) \cup {key} |->
                                IF k = key THEN now ELSE lastAlarms[k]]
           /\ sched' = [sched EXCEPT ![s] = NextWindow(r)]
    /\ UNCHANGED <<config, influx, cwd, burst, phase, files, maps, targets, cache, watched, watch, dns, targetsMux,
                   batchPoints, lastFlush, sink, batchTimer, cancelled, now>>

\* SchedExit emitting the samples of the window it leaves
SchedExitEmitting(s) ==
    /\ Alive /\ cancelled
    /\ \/ sched[s].pc = "select"
       \/ sched[s].pc = "delay" /\ sched[s].delay > 0
    /\ sched' = [sched EXCEPT ![s].pc = "done"]
    /\ batchPoints' =
          IF sched[s].pingCount > 0
          THEN Append(batchPoints,
                      Point(sched[s].orgName, sched[s].host,
                            processDataPoint(sched[s].pingData, sched[s].dataPointStartTime)))
          ELSE batchPoints
    /\ UNCHANGED <<config, influx, cwd, burst, phase, files, maps, targets, cache, watched, watch, dns, targetsMux,
                   lastFlush, sink, batchTimer, lastAlarms, alarmsFired, cancelled, now>>

\* executeAlarmReceiver: cmd.CombinedOutput returns (the handler has finished
\* or its 30 s context has killed it) and the goroutine ends
AlarmReceiverDone(i) ==
    /\ Alive /\ i \in 1 .. Len(alarmsFired) /\ alarmsFired[i].Running
    /\ alarmsFired' = [alarmsFired EXCEPT ![i].Running = FALSE]
    /\ UNCHANGED <<config, influx, cwd, burst, phase, files, maps, targets, cache, watched, watch, dns, targetsMux,
                   sched, batchPoints, lastFlush, sink, batchTimer, lastAlarms, cancelled, now>>

\* SchedExit of a loop whose select has no ctx.Done case: the goroutine
\* returns during the stagger delay only
SchedExitInDelay(s) ==
    /\ Alive /\ cancelled
    /\ sched[s].pc = "delay" /\ sched[s].delay > 0
    /\ sched' = [sched EXCEPT ![s].pc = "done"]
    /\ UNCHANGED <<config, influx, cwd, burst, phase, files, maps, targets, cache, watched, watch, dns, targetsMux,
                   batchPoints, lastFlush, sink, batchTimer, lastAlarms, alarmsFired,
                   cancelled, now>>

\* case <-sp.ctx.Done(): the goroutine returns (during the stagger delay only
\* when there is a delay to wait for)
SchedExit(s) ==
    /\ Alive /\ cancelled
    /\ \/ sched[s].pc = "select"
       \/ sched[s].pc = "delay" /\ sched[s].delay > 0
    /\ sched' = [sched EXCEPT ![s].pc = "done"]
    /\ UNCHANGED <<config, influx, cwd, burst, phase, files, maps, targets, cache, watched, watch, dns, targetsMux,
                   batchPoints, lastFlush, sink, batchTimer, lastAlarms, alarmsFired,
                   cancelled, now>>

(***************************************************************************)
(* batchFlushTimer                                                         *)
(***************************************************************************)
\* case <-ticker.C: checkAndFlushBatch("timer")
BatchTimerTick ==
    /\ Alive /\ batchTimer.pc = "run" /\ now >= batchTimer.next
    /\ batchTimer' = [batchTimer EXCEPT !.next = batchTimer.next + InfluxBatchTime]
    /\ IF Len(batchPoints) > 0 /\ now - lastFlush >= InfluxBatchTime
       THEN flushBatchUnsafe
       ELSE UNCHANGED <<batchPoints, sink, lastFlush>>
    /\ UNCHANGED <<config, influx, cwd, burst, phase, files, maps, targets, cache, watched, watch, dns, targetsMux,
                   sched, lastAlarms, alarmsFired, cancelled, now>>

\* case <-sp.ctx.Done(): flushBatch("shutdown") and return
BatchTimerExit ==
    /\ Alive /\ batchTimer.pc = "run" /\ cancelled
    /\ flushBatchUnsafe
    /\ batchTimer' = [batchTimer EXCEPT !.pc = "done"]
    /\ UNCHANGED <<config, influx, cwd, burst, phase, files, maps, targets, cache, watched, watch, dns, targetsMux,
                   sched, lastAlarms, alarmsFired, cancelled, now>>

\* the asynchronous write API sends what WritePoint has buffered (its flush
\* interval has passed or its batch is full)
InfluxSend ==
    /\ Alive /\ ~influx.closed /\ influx.sent < Len(sink)
    /\ influx' = [influx EXCEPT !.sent = Len(sink)]
    /\ UNCHANGED <<config, cwd, burst, phase, files, maps, targets, cache, watched, watch, dns, targetsMux,
                   sched, batchPoints, lastFlush, sink, batchTimer, lastAlarms, alarmsFired,
                   cancelled, now>>

(***************************************************************************)
(* The clock and the end of main()                                         *)
(***************************************************************************)
\* a second passes; the stagger delays (100 ms per target at most, a few
\* targets) are over by then
TickUpTo(limit) ==
    /\ now < limit
    /\ phase \in {"Running", "Draining"}
    /\ \A s \in DOMAIN sched : sched[s].pc # "delay"
    /\ now' = now + 1
    /\ UNCHANGED <<config, influx, cwd, burst, phase, files, maps, targets, cache, watched, watch, dns, targetsMux,
                   sched, batchPoints, lastFlush, sink, batchTimer, lastAlarms,
                   alarmsFired, cancelled>>

Tick == TickUpTo(MaxTime)

\* SIGINT / SIGTERM: app.cancel()
Signal ==
    /\ phase = "Running"
    /\ phase' = "Draining"
    /\ cancelled' = TRUE
    /\ UNCHANGED <<config, influx, cwd, burst, files, maps, targets, cache, watched, watch, dns, targetsMux, sched,
                   batchPoints, lastFlush, sink, batchTimer, lastAlarms, alarmsFired, now>>

\* app.wg.Wait() returns: every goroutine counted in sp.wg has returned
MainExit ==
    /\ phase = "Draining"
    /\ \A s \in DOMAIN sched : sched[s].pc = "done"
    /\ batchTimer.pc = "done"
    /\ watch.pc = "done"
    /\ dns.pc \in {"done", "none"}
    /\ phase' = "Exited"
    /\ watched' = {}
    /\ UNCHANGED <<config, influx, cwd, burst, files, maps, targets, cache, watch, dns, targetsMux, sched, batchPoints,
                   lastFlush, sink, batchTimer, lastAlarms, alarmsFired, cancelled, now>>

(***************************************************************************)
(* The file watcher and the reload (watchFiles, reloadConfiguration,       *)
(* reloadTargets, applyTargetChanges), all run by the watchFiles goroutine *)
(***************************************************************************)
\* compareTargets: the key of a target
targetKey(orgName, host) == orgName \o "_" \o host.Name \o "_" \o host.IP

KeysOf(orgs) == {targetKey(Targets(orgs)[i].OrgName, Targets(orgs)[i].Host) :
                    i \in 1 .. Len(Targets(orgs))}

\* compareTargets: added and unchanged list the new targets, removed the keys
\* of the old map that the new map lacks
compareTargets(oldOrgs, newOrgs) ==
    LET old == Targets(oldOrgs)
        new == Targets(newOrgs)
        oldKeys == KeysOf(oldOrgs)
        newKeys == KeysOf(newOrgs)
        InOld(t) == targetKey(t.OrgName, t.Host) \in oldKeys
        NotInOld(t) == targetKey(t.OrgName, t.Host) \notin oldKeys
    IN  [added |-> SelectSeq(new, NotInOld),
         unchanged |-> SelectSeq(new, InOld),
         removed |-> oldKeys \ newKeys]

\* the map objects still referenced once a step is done; the others are
\* garbage and hold nothing
Collect(ms, refs) == [m \in MapIds |-> IF m \in refs THEN ms[m] ELSE NoOrgs]
DnsRefs == IF dns.pc = "range" THEN {dns.ranged} ELSE {}
FreshMap == CHOOSE m \in MapIds :
               /\ m \notin {targets.Organizations} \cup DnsRefs
               /\ \A n \in MapIds : n < m => n \in {targets.Organizations} \cup DnsRefs

WatchIdle == [watch EXCEPT !.pc = "idle", !.oldTargets = NoTargets, !.newTargets = NoTargets,
                           !.originalTargets = NoTargets]

\* a Write event happens now: it continues the burst when the event before
\* it is less than debounceDelay old, else it starts a burst
NoteWrite ==
    IF burst.last # ZeroTime /\ now - burst.last < debounceDelay
    THEN [burst EXCEPT !.last = now]
    ELSE [burst EXCEPT !.start = now, !.last = now, !.caused = 0]

\* a watched file is written (the environment)
EditFile(f, content) ==
    /\ phase = "Running"
    /\ files[f] # content
    /\ files' = [files EXCEPT ![f] = content]
    /\ IF f \in watched
       THEN /\ Len(watch.events) < MaxEvents
            /\ watch' = [watch EXCEPT !.events = Append(@, now)]
            /\ burst' = NoteWrite
       ELSE UNCHANGED <<watch, burst>>
    /\ UNCHANGED <<config, influx, cwd, phase, maps, targets, cache, watched, dns, targetsMux, sched,
                   batchPoints, lastFlush, sink, batchTimer, lastAlarms, alarmsFired,
                   cancelled, now>>

\* a watched file is written again with the content it has (the environment)
TouchFile(f) ==
    /\ phase = "Running"
    /\ f \in watched
    /\ Len(watch.events) < MaxEvents
    /\ watch' = [watch EXCEPT !.events = Append(@, now)]
    /\ burst' = NoteWrite
    /\ UNCHANGED <<config, influx, cwd, phase, files, maps, targets, cache, watched, dns, targetsMux,
                   sched, batchPoints, lastFlush, sink, batchTimer, lastAlarms, alarmsFired,
                   cancelled, now>>

\* case event := <-sp.watcher.Events (a Write or Create): the debounce timer
\* is stopped and started again
WatchEvent ==
    /\ Alive /\ watch.pc = "idle" /\ watch.events # <<>>
    /\ watch' = [watch EXCEPT !.events = Tail(@), !.timer = now + debounceDelay]
    /\ burst' = [burst EXCEPT !.armedBy = Head(watch.events)]
    /\ UNCHANGED <<config, influx, cwd, phase, files, maps, targets, cache, watched, dns, targetsMux, sched,
                   batchPoints, lastFlush, sink, batchTimer, lastAlarms, alarmsFired,
                   cancelled, now>>

\* the debounce timer fires: a non-blocking send on reloadChan (capacity 1)
TimerFire ==
    /\ Alive /\ watch.timer # ZeroTime /\ now >= watch.timer
    /\ watch' = [watch EXCEPT !.timer = ZeroTime, !.reloadChan = TRUE]
    /\ burst' = IF ~watch.reloadChan /\ burst.armedBy >= burst.start
                THEN [burst EXCEPT !.caused = @ + 1, !.armedBy = ZeroTime]
                ELSE [burst EXCEPT !.armedBy = ZeroTime]
    /\ UNCHANGED <<config, influx, cwd, phase, files, maps, targets, cache, watched, dns, targetsMux, sched,
                   batchPoints, lastFlush, sink, batchTimer, lastAlarms, alarmsFired,
                   cancelled, now>>

\* case <-sp.reloadChan: reloadConfiguration is entered
ReloadRecv ==
    /\ Alive /\ watch.pc = "idle" /\ watch.reloadChan
    /\ watch' = [watch EXCEPT !.pc = "reload", !.reloadChan = FALSE]
    /\ UNCHANGED <<config, influx, cwd, burst, phase, files, maps, targets, cache, watched, dns, targetsMux, sched,
                   batchPoints, lastFlush, sink, batchTimer, lastAlarms, alarmsFired,
                   cancelled, now>>

\* reloadConfiguration: oldTargets is read under the read lock; reloadTargets
\* loads the main file and the includes (paths as written) into newTargets
ReloadLoad ==
    /\ Alive /\ watch.pc = "reload" /\ targetsMux = "free"
    /\ IF loadAndValidateTargetsFile(files, targetsFile, TRUE)
       THEN /\ watch' = WatchIdle
            /\ UNCHANGED maps
       ELSE /\ watch' = [watch EXCEPT !.pc = "loaded", !.oldTargets = targets,
                            !.newTargets = [Include |-> files[targetsFile].Include,
                                            Organizations |-> FreshMap]]
            /\ maps' = [maps EXCEPT ![FreshMap] =
                          LoadIncludes(files, files[targetsFile].Organizations,
                                       files[targetsFile].Include, FALSE)]
    /\ UNCHANGED <<config, influx, cwd, burst, phase, files, targets, cache, watched, dns, targetsMux, sched,
                   batchPoints, lastFlush, sink, batchTimer, lastAlarms, alarmsFired,
                   cancelled, now>>

\* reloadTargets: "originalTargets := sp.targets; sp.targets = *newTargets",
\* with no lock held
ReloadSwap ==
    /\ Alive /\ watch.pc = "loaded"
    /\ watch' = [watch EXCEPT !.pc = "swapped", !.originalTargets = targets]
    /\ targets' = watch.newTargets
    /\ UNCHANGED <<config, influx, cwd, burst, phase, files, maps, cache, watched, dns, targetsMux, sched,
                   batchPoints, lastFlush, sink, batchTimer, lastAlarms, alarmsFired,
                   cancelled, now>>

\* reloadTargets: validateCompleteTargets on sp.targets; on an error
\* sp.targets is restored and reloadConfiguration returns
ReloadValidate ==
    /\ Alive /\ watch.pc = "swapped"
    /\ IF validateCompleteTargets(maps[targets.Organizations])
       THEN /\ targets' = watch.originalTargets
            /\ watch' = WatchIdle
            /\ maps' = Collect(maps, {watch.originalTargets.Organizations} \cup DnsRefs)
       ELSE /\ watch' = [watch EXCEPT !.pc = "apply"]
            /\ UNCHANGED <<targets, maps>>
    /\ UNCHANGED <<config, influx, cwd, burst, phase, files, cache, watched, dns, targetsMux, sched,
                   batchPoints, lastFlush, sink, batchTimer, lastAlarms, alarmsFired,
                   cancelled, now>>

\* updateWatchedFiles: the includes of sp.targets that exist are added
updateWatchedFiles(include) ==
    watched \cup {f \in {OpenPath(i) : i \in Range(include)} : f \in DOMAIN files}

\* applyTargetChanges: compareTargets, sp.targets = newTargets under the
\* write lock, the report, updateWatchedFiles. No scheduler is touched.
applyTargetChanges ==
    /\ Alive /\ watch.pc = "apply" /\ targetsMux = "free"
    /\ LET diff == compareTargets(maps[watch.oldTargets.Organizations],
                                  maps[watch.newTargets.Organizations])
       IN  /\ targets' = watch.newTargets
           /\ watched' = IF Len(diff.added) > 0 \/ diff.removed # {}
                         THEN updateWatchedFiles(watch.newTargets.Include)
                         ELSE watched
    /\ watch' = WatchIdle
    /\ maps' = Collect(maps, {watch.newTargets.Organizations} \cup DnsRefs)
    /\ UNCHANGED <<config, influx, cwd, burst, phase, files, cache, dns, targetsMux, sched,
                   batchPoints, lastFlush, sink, batchTimer, lastAlarms, alarmsFired,
                   cancelled, now>>

\* case <-sp.ctx.Done(): watchFiles returns
WatchExit ==
    /\ Alive /\ watch.pc = "idle" /\ cancelled
    /\ watch' = [watch EXCEPT !.pc = "done"]
    /\ UNCHANGED <<config, influx, cwd, burst, phase, files, maps, targets, cache, watched, dns, targetsMux, sched,
                   batchPoints, lastFlush, sink, batchTimer, lastAlarms, alarmsFired,
                   cancelled, now>>

(***************************************************************************)
(* The DNS refresh goroutine (startDNSRefreshMonitoring,                   *)
(* performDNSRefreshCheck). The write lock is held for the whole check.    *)
(***************************************************************************)
\* RefreshHosts forgetting the resolved address of a host whose lookup fails
RECURSIVE RefreshHostsClearing(_, _, _)
RefreshHostsClearing(hosts, answers, t) ==
    IF hosts = <<>> THEN <<>>
    ELSE LET host == Head(hosts)
             r == resolveDNSName(Head(answers))
             rest == RefreshHostsClearing(Tail(hosts), Tail(answers), t)
         IN  IF ~host.IsDNSName THEN <<host>> \o rest
             ELSE IF r.err THEN <<[host EXCEPT !.ResolvedIP = ""]>> \o rest
             ELSE IF r.ip # host.ResolvedIP
             THEN <<[host EXCEPT !.ResolvedIP = r.ip, !.LastDNSCheck = t]>> \o rest
             ELSE <<[host EXCEPT !.LastDNSCheck = t]>> \o rest

\* the host loop of performDNSRefreshCheck over one organization
RECURSIVE RefreshHosts(_, _, _)
RefreshHosts(hosts, answers, t) ==
    IF hosts = <<>> THEN <<>>
    ELSE LET host == Head(hosts)
             r == resolveDNSName(Head(answers))
             rest == RefreshHosts(Tail(hosts), Tail(answers), t)
         IN  IF ~host.IsDNSName \/ r.err THEN <<host>> \o rest
             ELSE IF r.ip # host.ResolvedIP
             THEN <<[host EXCEPT !.ResolvedIP = r.ip, !.LastDNSCheck = t]>> \o rest
             ELSE <<[host EXCEPT !.LastDNSCheck = t]>> \o rest

\* the cache writes of the same loop
RECURSIVE RefreshCache(_, _, _, _)
RefreshCache(c, hosts, answers, t) ==
    IF hosts = <<>> THEN c
    ELSE LET host == Head(hosts)
             r == resolveDNSName(Head(answers))
             c2 == IF host.IsDNSName /\ ~r.err /\ r.ip # host.ResolvedIP
                   THEN [h \in (DOMAIN c) \cup {host.IP} |->
                            IF h # host.IP THEN c[h]
                            ELSE IF h \in DOMAIN c
                                 THEN DNSCache(r.ip, t, c[h].DNSChanges + 1)
                                 ELSE DNSCache(r.ip, t, 1)]
                   ELSE c
         IN  RefreshCache(c2, Tail(hosts), Tail(answers), t)

\* checkedCount and errorCount of the same loop
CheckedCount(hosts) == Cardinality({i \in 1 .. Len(hosts) : hosts[i].IsDNSName})

ErrorCount(hosts, answers) ==
    Cardinality({i \in 1 .. Len(hosts) :
                    hosts[i].IsDNSName /\ resolveDNSName(answers[i]).err})

WatchRefs == {watch.oldTargets.Organizations, watch.newTargets.Organizations,
              watch.originalTargets.Organizations} \ {NoMap}

\* case <-ticker.C: performDNSRefreshCheck takes the write lock and starts
\* to range over sp.targets.Organizations
RefreshBegin ==
    /\ Alive /\ dns.pc = "idle" /\ now >= dns.next /\ targetsMux = "free"
    /\ LET m == targets.Organizations
       IN  IF DOMAIN maps[m] = {}
           THEN /\ dns' = [dns EXCEPT !.next = dns.next + config.DNSRefresh,
                              !.checked = 0, !.errors = 0]
                /\ UNCHANGED targetsMux
           ELSE /\ dns' = [dns EXCEPT !.pc = "range", !.next = dns.next + config.DNSRefresh,
                              !.ranged = m, !.todo = DOMAIN maps[m],
                              !.checked = 0, !.errors = 0]
                /\ targetsMux' = "dns"
    /\ UNCHANGED <<config, influx, cwd, burst, phase, files, maps, targets, cache, watched, watch, sched,
                   batchPoints, lastFlush, sink, batchTimer, lastAlarms, alarmsFired,
                   cancelled, now>>

\* one organization of the range loop: every hostname host is looked up, the
\* hosts are written in place (org.Hosts[i] = host) and the organization is
\* stored in sp.targets.Organizations as it is then; after the last one the
\* lock is released
RefreshOrg(o) ==
    /\ Alive /\ dns.pc = "range" /\ o \in dns.todo
    /\ LET hosts == maps[dns.ranged][o]
       IN  \E answers \in [1 .. Len(hosts) -> Lookups] :
             LET updated == RefreshHosts(hosts, answers, now)
                 live == targets.Organizations
                 stored == [m \in MapIds |->
                              IF m = dns.ranged \/ m = live
                              THEN [p \in (DOMAIN maps[m]) \cup {o} |->
                                      IF p = o THEN updated ELSE maps[m][p]]
                              ELSE maps[m]]
             IN  /\ cache' = RefreshCache(cache, hosts, answers, now)
                 /\ IF dns.todo = {o}
                    THEN /\ dns' = [dns EXCEPT !.pc = "idle", !.ranged = NoMap, !.todo = {},
                                       !.checked = @ + CheckedCount(hosts),
                                       !.errors = @ + ErrorCount(hosts, answers)]
                         /\ targetsMux' = "free"
                         /\ maps' = Collect(stored, {live} \cup WatchRefs)
                    ELSE /\ dns' = [dns EXCEPT !.todo = dns.todo \ {o},
                                       !.checked = @ + CheckedCount(hosts),
                                       !.errors = @ + ErrorCount(hosts, answers)]
                         /\ maps' = stored
                         /\ UNCHANGED targetsMux
    /\ UNCHANGED <<config, influx, cwd, burst, phase, files, targets, watched, watch, sched,
                   batchPoints, lastFlush, sink, batchTimer, lastAlarms, alarmsFired,
                   cancelled, now>>

\* case <-sp.ctx.Done(): the goroutine returns
RefreshExit ==
    /\ Alive /\ dns.pc = "idle" /\ cancelled
    /\ dns' = [dns EXCEPT !.pc = "done"]
    /\ UNCHANGED <<config, influx, cwd, burst, phase, files, maps, targets, cache, watched, watch, targetsMux, sched,
                   batchPoints, lastFlush, sink, batchTimer, lastAlarms, alarmsFired,
                   cancelled, now>>

(***************************************************************************)
(* The specification                                                       *)
(***************************************************************************)
Startup == loadTargets \/ performDNSPreflightChecks \/ startPingMonitoring

SchedStep ==
    \/ \E s \in DOMAIN sched : SchedStart(s)
    \/ \E s \in DOMAIN sched : SchedTick(s)
    \/ \E s \in DOMAIN sched, success \in BOOLEAN, rtt \in RTTs : SchedPingDone(s, success, rtt)
    \/ \E s \in DOMAIN sched : SchedFlush(s)
    \/ \E s \in DOMAIN sched : SchedCheckAlarms(s)
    \/ \E s \in DOMAIN sched : SchedTriggerAlarm(s)
    \/ \E s \in DOMAIN sched : SchedExit(s)

BatchStep == BatchTimerTick \/ BatchTimerExit

Edit(mains, incs) ==
    \/ \E c \in mains : EditFile(targetsFile, c)
    \/ \E c \in incs : EditFile(IncPath, c)

ReloadStep ==
    \/ WatchEvent
    \/ TimerFire
    \/ ReloadRecv
    \/ ReloadLoad
    \/ ReloadSwap
    \/ ReloadValidate
    \/ applyTargetChanges

WatchStep == Edit(MainContents, IncContents) \/ ReloadStep \/ WatchExit

DnsStep == RefreshBegin \/ (\E o \in OrgNames : RefreshOrg(o)) \/ RefreshExit

Lifecycle == Tick \/ Signal \/ MainExit

\* every goroutine, every input
Next == Startup \/ SchedStep \/ BatchStep \/ WatchStep \/ DnsStep \/ Lifecycle

SpecAll == Init /\ [][Next]_vars

\* Reload and registry: the startup, the file watcher and the reload, the DNS
\* refresh and the clock. The targets file starts as MainXY and is edited to
\* any of ReloadMains; every scheduler is followed up to its first probe.
ReloadMains == {MainXY, MainYZ, MainEmpty, Unreadable}

SchedFirstProbe ==
    \/ \E s \in DOMAIN sched : SchedStart(s)
    \/ \E s \in DOMAIN sched : sched[s].pingCount = 0 /\ SchedTick(s)

NextReload ==
    \/ Startup
    \/ SchedFirstProbe
    \/ Edit(ReloadMains, IncContents)
    \/ ReloadStep
    \/ RefreshBegin
    \/ \E o \in OrgNames : RefreshOrg(o)
    \/ Tick

Spec == InitWith({MainXY}, IncContents) /\ [][NextReload]_vars

\* Reloads that fail: the targets file starts as MainXY with no readable
\* include and is edited to contents the reload rejects (unreadable, or no
\* host at all), while the DNS refresh runs.
NextFailedReload ==
    \/ Startup
    \/ \E s \in DOMAIN sched : SchedStart(s)
    \/ \E c \in {MainEmpty, Unreadable} : EditFile(targetsFile, c)
    \/ WatchEvent
    \/ TimerFire
    \/ ReloadRecv
    \/ ReloadLoad
    \/ ReloadSwap
    \/ ReloadValidate
    \/ RefreshBegin
    \/ \E o \in OrgNames : RefreshOrg(o)
    \/ Tick

SpecFailedReload == InitWith({MainXY}, {Unreadable}) /\ [][NextFailedReload]_vars

\* DNS refresh against running schedulers: no file is edited; the schedulers
\* probe and close their windows.
NextDns ==
    \/ Startup
    \/ \E s \in DOMAIN sched : SchedStart(s)
    \/ \E s \in DOMAIN sched : SchedTick(s)
    \/ \E s \in DOMAIN sched, success \in BOOLEAN : SchedPingDone(s, success, UnitsPerMs)
    \/ RefreshBegin
    \/ \E o \in OrgNames : RefreshOrg(o)
    \/ Tick

SpecDns == InitWith({MainXY}, {Unreadable}) /\ [][NextDns]_vars

\* the steps of a scheduler while the process runs
SchedRun ==
    \/ \E s \in DOMAIN sched : SchedStart(s)
    \/ \E s \in DOMAIN sched : SchedTick(s)
    \/ \E s \in DOMAIN sched, success \in BOOLEAN, rtt \in RTTs : SchedPingDone(s, success, rtt)
    \/ \E s \in DOMAIN sched : SchedFlush(s)
    \/ \E s \in DOMAIN sched : SchedCheckAlarms(s)
    \/ \E s \in DOMAIN sched : SchedTriggerAlarm(s)

\* Alarms: target x (alarmping 1 ms) alone; no file is edited.
NextAlarm == Startup \/ SchedRun \/ Tick

SpecAlarm == InitWith({MainX}, {Unreadable}) /\ [][NextAlarm]_vars

\* Alarms with the second "x" of the include file: two schedulers whose
\* targets share (organization, name).
SpecAlarmDup == InitWith({MainX}, {IncDup}) /\ [][NextAlarm]_vars

\* Thresholds: target x alone, whose alarmping is edited from 1 ms to 5 ms.
NextThreshold ==
    \/ Startup
    \/ SchedRun
    \/ EditFile(targetsFile, MainXe)
    \/ ReloadStep
    \/ Tick

SpecThreshold == InitWith({MainX}, {Unreadable}) /\ [][NextThreshold]_vars

\* Shutdown: the schedulers, the batch timer, the signal and the end of main().
NextShutdown ==
    \/ Startup
    \/ SchedStep
    \/ BatchStep
    \/ WatchExit
    \/ RefreshExit
    \/ Lifecycle

SpecShutdown == InitWith({MainX}, {Unreadable}) /\ [][NextShutdown]_vars

\* Capacity: the targets file starts within the capacity (MainX) or above it
\* (MainBig), and is edited to MainBig or to MainXY while the process runs.
NextCapacity ==
    \/ Startup
    \/ SchedFirstProbe
    \/ \E c \in {MainBig, MainXY} : EditFile(targetsFile, c)
    \/ ReloadStep
    \/ RefreshBegin
    \/ \E o \in OrgNames : RefreshOrg(o)
    \/ Tick

SpecCapacity == InitWith({MainX, MainBig}, {Unreadable}) /\ [][NextCapacity]_vars

\* Pre-flight: the targets file holds the hostname target y, alone or next to
\* x; no file is edited.
NextPreflight ==
    \/ Startup
    \/ SchedFirstProbe
    \/ RefreshBegin
    \/ \E o \in OrgNames : RefreshOrg(o)
    \/ Tick

SpecPreflight == InitWith({MainXY, MainY}, {Unreadable}) /\ [][NextPreflight]_vars

\* Batching: targets z and y (IP literals, no alarm thresholds), their
\* schedulers and the batch timer; every probe is answered; one data point
\* more than a size-triggered flush takes.
MaxBatchPoints == InfluxBatchSize + 1

NextBatch ==
    \/ Startup
    \/ \E s \in DOMAIN sched : SchedStart(s)
    \/ \E s \in DOMAIN sched : SchedTickUpTo(s, MaxBatchPoints)
    \/ \E s \in DOMAIN sched : SchedPingDone(s, TRUE, UnitsPerMs)
    \/ \E s \in DOMAIN sched : SchedFlush(s)
    \/ \E s \in DOMAIN sched : SchedCheckAlarms(s)
    \/ BatchTimerTick
    \/ Tick

SpecBatch == InitWith({MainZY}, {Unreadable}) /\ [][NextBatch]_vars

\* DNS refresh as configured: dns_refresh is 0 or DNSRefresh seconds; targets
\* x and the hostname target y; no file is edited.
SpecRefreshConfig ==
    InitConfig({MainXY}, {Unreadable}, {DefaultConfig, ZeroRefreshConfig})
        /\ [][NextPreflight]_vars

\* DNS refresh of two hostname targets; no file is edited.
SpecRefresh == InitWith({MainYY}, {Unreadable}) /\ [][NextPreflight]_vars

\* Alarm channels: target x with a threshold on each of the three channels.
SpecTrigger == InitWith({MainT}, {Unreadable}) /\ [][NextAlarm]_vars

\* Alarm handlers: two targets with alarmping 1 ms, x with a handler of its
\* own or none, z with "NONE"; the global handler is a path, empty or "None";
\* every probe is answered in 5 ms.
NextReceiver ==
    \/ Startup
    \/ \E s \in DOMAIN sched : SchedStart(s)
    \/ \E s \in DOMAIN sched : SchedTick(s)
    \/ \E s \in DOMAIN sched : SchedPingDone(s, TRUE, 5 * UnitsPerMs)
    \/ \E s \in DOMAIN sched : SchedFlush(s)
    \/ \E s \in DOMAIN sched : SchedCheckAlarms(s)
    \/ \E s \in DOMAIN sched : SchedTriggerAlarm(s)
    \/ Tick

SpecReceiver ==
    InitConfig({MainOverNone, MainXNone}, {Unreadable}, ReceiverConfigs)
        /\ [][NextReceiver]_vars

\* Alarm keys: targets (A, x_y) and (A_x, y), both with alarmping 1 ms and the
\* global handler; every probe is answered in 5 ms.
SpecAlarmKeys == InitWith({MainUnderscore}, {Unreadable}) /\ [][NextReceiver]_vars

\* Removal of a target that has alarm state: target x (alarmping 1 ms) alone;
\* the targets file is edited to hold z and y instead.
NextRemoval ==
    \/ Startup
    \/ SchedRun
    \/ EditFile(targetsFile, MainZY)
    \/ ReloadStep
    \/ Tick

SpecRemoval == InitWith({MainX}, {Unreadable}) /\ [][NextRemoval]_vars

\* Source addresses: one target whose pingsource is "default", an address or
\* absent; the global ping_source is "default" or an address.
NextSource ==
    \/ Startup
    \/ \E s \in DOMAIN sched : SchedStart(s)
    \/ \E s \in DOMAIN sched : SchedTick(s)
    \/ \E s \in DOMAIN sched, success \in BOOLEAN : SchedPingDone(s, success, UnitsPerMs)
    \/ \E s \in DOMAIN sched : SchedFlush(s)
    \/ \E s \in DOMAIN sched : SchedCheckAlarms(s)
    \/ Tick

SpecSource == InitConfig(SourceMains, {Unreadable}, SourceConfigs) /\ [][NextSource]_vars

\* Cancellation of a scheduler: target z (no alarm thresholds) alone, its
\* scheduler and the signal.
NextCancel ==
    \/ Startup
    \/ \E s \in DOMAIN sched : SchedStart(s)
    \/ \E s \in DOMAIN sched : SchedTick(s)
    \/ \E s \in DOMAIN sched, success \in BOOLEAN : SchedPingDone(s, success, UnitsPerMs)
    \/ \E s \in DOMAIN sched : SchedFlush(s)
    \/ \E s \in DOMAIN sched : SchedCheckAlarms(s)
    \/ \E s \in DOMAIN sched : SchedExit(s)
    \/ Signal
    \/ Tick

SpecCancel == InitWith({MainZ}, {Unreadable}) /\ [][NextCancel]_vars

\* Shutdown with alarm handlers: target x (alarmping 1 ms) alone, every probe
\* answered in 5 ms; the handlers run and end, the signal, the end of main().
NextHandlers ==
    \/ Startup
    \/ \E s \in DOMAIN sched : SchedStart(s)
    \/ \E s \in DOMAIN sched : SchedTick(s)
    \/ \E s \in DOMAIN sched : SchedPingDone(s, TRUE, 5 * UnitsPerMs)
    \/ \E s \in DOMAIN sched : SchedFlush(s)
    \/ \E s \in DOMAIN sched : SchedCheckAlarms(s)
    \/ \E s \in DOMAIN sched : SchedTriggerAlarm(s)
    \/ \E i \in 1 .. Len(alarmsFired) : AlarmReceiverDone(i)
    \/ \E s \in DOMAIN sched : SchedExit(s)
    \/ BatchTimerExit
    \/ WatchExit
    \/ RefreshExit
    \/ Lifecycle

SpecHandlers == InitWith({MainX}, {Unreadable}) /\ [][NextHandlers]_vars

\* Draining: target z alone with every probe answered, the batch timer, the
\* write API, the signal and the end of main().
NextDrain ==
    \/ Startup
    \/ \E s \in DOMAIN sched : SchedStart(s)
    \/ \E s \in DOMAIN sched : SchedTick(s)
    \/ \E s \in DOMAIN sched : SchedPingDone(s, TRUE, UnitsPerMs)
    \/ \E s \in DOMAIN sched : SchedFlush(s)
    \/ \E s \in DOMAIN sched : SchedCheckAlarms(s)
    \/ \E s \in DOMAIN sched : SchedExit(s)
    \/ BatchTimerTick
    \/ BatchTimerExit
    \/ InfluxSend
    \/ WatchExit
    \/ RefreshExit
    \/ Lifecycle

SpecDrain == InitWith({MainZ}, {Unreadable}) /\ [][NextDrain]_vars

\* Termination: target z alone, every goroutine counted in sp.wg and the
\* signal; no file is edited. Every probe and lookup returns, every
\* step that is ready is eventually run, and a select that is entered again
\* and again with sp.ctx done eventually takes the ctx.Done case.
LiveScheds == 1 .. Len(Targets(MainZ.Organizations))

NextLive ==
    \/ Startup
    \/ \E s \in DOMAIN sched : SchedStart(s)
    \/ \E s \in DOMAIN sched : SchedTickUpTo(s, MaxPoints - 1)
    \/ \E s \in DOMAIN sched : SchedPingDone(s, TRUE, UnitsPerMs)
    \/ \E s \in DOMAIN sched : SchedFlush(s)
    \/ \E s \in DOMAIN sched : SchedCheckAlarms(s)
    \/ \E s \in DOMAIN sched : SchedExit(s)
    \/ BatchStep
    \/ WatchExit
    \/ DnsStep
    \/ Lifecycle

Fairness ==
    /\ \A s \in LiveScheds :
          /\ WF_vars(s \in DOMAIN sched /\ SchedStart(s))
          /\ WF_vars(s \in DOMAIN sched /\ SchedPingDone(s, TRUE, UnitsPerMs))
          /\ WF_vars(s \in DOMAIN sched /\ SchedFlush(s))
          /\ WF_vars(s \in DOMAIN sched /\ SchedCheckAlarms(s))
          /\ SF_vars(s \in DOMAIN sched /\ SchedExit(s))
    /\ SF_vars(BatchTimerExit)
    /\ SF_vars(WatchExit)
    /\ WF_vars(\E o \in OrgNames : RefreshOrg(o))
    /\ SF_vars(RefreshExit)
    /\ WF_vars(MainExit)

SpecLive == InitWith({MainZ}, {Unreadable}) /\ [][NextLive]_vars /\ Fairness

\* Include paths: the targets file names its include by a relative path; the
\* process runs in the directory of the targets file or in "/"; the files are
\* written again unchanged.
NextInclude ==
    \/ Startup
    \/ SchedFirstProbe
    \/ \E f \in {targetsFile, IncPath} : TouchFile(f)
    \/ ReloadStep
    \/ Tick

SpecInclude ==
    InitIn({MainRel}, {IncZ}, {DefaultConfig}, {TargetsDir, "/"}) /\ [][NextInclude]_vars

\* Diff keys: the targets file holds target x_y of organization A and is
\* edited to hold target y of organization A_x at the same address, and back.
NextDiffKeys ==
    \/ Startup
    \/ SchedFirstProbe
    \/ \E c \in {MainUa, MainUb} : EditFile(targetsFile, c)
    \/ ReloadStep
    \/ Tick

SpecDiffKeys == InitWith({MainUa}, {Unreadable}) /\ [][NextDiffKeys]_vars

\* Debounce: hostname target y alone; the targets file is written again and
\* again, the DNS refresh runs. The watcher and its timer are prompt: time
\* passes only when no step of theirs is ready, that is while watchFiles is
\* in its select with nothing to receive or waits for the registry lock.
BurstTime == 2 * MaxTime

TickPrompt == ~(ENABLED ReloadStep) /\ TickUpTo(BurstTime)

NextDebounce ==
    \/ Startup
    \/ \E s \in DOMAIN sched : SchedStart(s)
    \/ TouchFile(targetsFile)
    \/ ReloadStep
    \/ RefreshBegin
    \/ \E o \in OrgNames : RefreshOrg(o)
    \/ TickPrompt

SpecDebounce == InitWith({MainY}, {Unreadable}) /\ [][NextDebounce]_vars

\* Watch set: the targets file starts with target x and no include and is
\* edited to name the include file, which is unreadable or adds another x.
NextWatchSet ==
    \/ Startup
    \/ SchedFirstProbe
    \/ \E c \in {MainX, MainXn} : EditFile(targetsFile, c)
    \/ \E c \in {IncDup, Unreadable} : EditFile(IncPath, c)
    \/ ReloadStep
    \/ Tick

SpecWatchSet == InitWith({MainXn}, {IncDup, Unreadable}) /\ [][NextWatchSet]_vars

\* Stagger: one, two or three targets are started together; each scheduler
\* waits for its delay and issues its first probe, or is cancelled.
NextStagger ==
    \/ Startup
    \/ SchedFirstProbe
    \/ \E s \in DOMAIN sched : SchedExit(s)
    \/ Signal
    \/ Tick

SpecStagger == InitWith({MainX, MainZY, MainXZY}, {Unreadable}) /\ [][NextStagger]_vars

\* Window start: target z alone, the time of the first
\* probe of each window noted. The ticker fires after the window start was
\* taken: pingInterval after the loop starts, and pingInterval less the
\* duration of the closing probe after a window is closed.
NextStamp ==
    \/ Startup
    \/ \E s \in DOMAIN sched : SchedStart(s)
    \/ \E s \in DOMAIN sched :
          /\ sched[s].pingCount = 0 => now > sched[s].dataPointStartTime
          /\ SchedTickNoting(s, MaxPoints, TRUE)
    \/ \E s \in DOMAIN sched, success \in BOOLEAN, rtt \in RTTs : SchedPingDone(s, success, rtt)
    \/ \E s \in DOMAIN sched : SchedFlush(s)
    \/ \E s \in DOMAIN sched : SchedCheckAlarms(s)
    \/ Tick

SpecStamp == InitWith({MainZ}, {Unreadable}) /\ [][NextStamp]_vars

\* Order of the points: targets z and y, their schedulers enqueueing under
\* batchMutex, the flushes by size, by the batch timer and at shutdown, and
\* the signal; the clock runs up to the first period of the batch timer.
NextOrder ==
    \/ Startup
    \/ \E s \in DOMAIN sched : SchedStart(s)
    \/ \E s \in DOMAIN sched : SchedTickUpTo(s, MaxBatchPoints)
    \/ \E s \in DOMAIN sched : SchedPingDone(s, TRUE, UnitsPerMs)
    \/ \E s \in DOMAIN sched : SchedFlush(s)
    \/ \E s \in DOMAIN sched : SchedCheckAlarms(s)
    \/ \E s \in DOMAIN sched : SchedExit(s)
    \/ BatchTimerTick
    \/ BatchTimerExit
    \/ Signal
    \/ TickUpTo(InfluxBatchTime)

SpecOrder == InitWith({MainZY}, {Unreadable}) /\ [][NextOrder]_vars

\* Reload pipeline: the targets file names its include by a relative path
\* and the process runs in the directory of the targets file or in "/"; the
\* targets file is written, with target x, with target y or unreadable, up
\* to MaxTime. watchFiles and the debounce timer take every step that is
\* ready, and the clock goes on.
PipelineMains == {MainRel, MainRelY, Unreadable}

NextPipeline ==
    \/ Startup
    \/ \E s \in DOMAIN sched : SchedStart(s)
    \/ \E c \in PipelineMains : now <= MaxTime /\ EditFile(targetsFile, c)
    \/ ReloadStep
    \/ TickPrompt

PipelineFairness ==
    /\ WF_vars(Startup)
    /\ \A s \in 1 .. 2 : WF_vars(s \in DOMAIN sched /\ SchedStart(s))
    /\ WF_vars(WatchEvent)
    /\ WF_vars(TimerFire)
    /\ WF_vars(ReloadRecv)
    /\ WF_vars(ReloadLoad)
    /\ WF_vars(ReloadSwap)
    /\ WF_vars(ReloadValidate)
    /\ WF_vars(applyTargetChanges)
    /\ SF_vars(TickPrompt)

SpecPipeline ==
    /\ InitIn({MainRel}, {IncZ}, {DefaultConfig}, {TargetsDir, "/"})
    /\ [][NextPipeline]_vars
    /\ PipelineFairness

(***************************************************************************)
(* Properties                                                              *)
(***************************************************************************)
Registry == IF targets.Organizations = NoMap THEN NoOrgs ELSE maps[targets.Organizations]
RegistryTargets == Targets(Registry)

SchedKey(s) == targetKey(sched[s].orgName, sched[s].host)
SchedKeys == {SchedKey(s) : s \in DOMAIN sched}
InRegistry(s) == SchedKey(s) \in KeysOf(Registry)

\* the registry entry of the target a scheduler was started for
RegistryHost(s) ==
    RegistryTargets[CHOOSE i \in 1 .. Len(RegistryTargets) :
        targetKey(RegistryTargets[i].OrgName, RegistryTargets[i].Host) = SchedKey(s)].Host

\* the step in which applyTargetChanges completes a successful reload, and the
\* diff it computes
ApplyStep == watch.pc = "apply" /\ watch'.pc = "idle"
ReloadDiff == compareTargets(maps[watch.oldTargets.Organizations],
                             maps[watch.newTargets.Organizations])
AddedKeys == {targetKey(ReloadDiff.added[i].OrgName, ReloadDiff.added[i].Host) :
                 i \in 1 .. Len(ReloadDiff.added)}
UnchangedKeys == {targetKey(ReloadDiff.unchanged[i].OrgName, ReloadDiff.unchanged[i].Host) :
                     i \in 1 .. Len(ReloadDiff.unchanged)}

\* C1: when a successful hot reload completes, every target its diff lists as
\* added has a scheduler that did not exist before the reload.
AddedTargetsGetScheduler ==
    [][ApplyStep =>
          \A k \in AddedKeys :
              \E s \in DOMAIN sched' :
                  /\ s \notin DOMAIN sched
                  /\ targetKey(sched'[s].orgName, sched'[s].host) = k]_vars

\* C2: when a successful hot reload completes, the scheduler of every target
\* its diff lists as removed has stopped or has its cancellation signal raised
\* (the only signal a scheduler selects on is sp.ctx).
RemovedTargetsSignalled ==
    [][ApplyStep =>
          \A s \in DOMAIN sched :
              SchedKey(s) \in ReloadDiff.removed =>
                  \/ s \notin DOMAIN sched'
                  \/ sched'[s].pc = "done"
                  \/ cancelled']_vars

\* C3: across a successful hot reload, the scheduler instances that go on
\* untouched (same goroutine, same window, not signalled) are exactly those of
\* the targets the diff lists as unchanged.
SurvivorsAreTheUnchanged ==
    [][ApplyStep =>
          {s \in DOMAIN sched : s \in DOMAIN sched' /\ sched'[s] = sched[s] /\ ~cancelled'}
              = {s \in DOMAIN sched : SchedKey(s) \in UnchangedKeys}]_vars

\* a scheduler's checkAlarms decides: the step that leaves "stored"
Evaluated(s) == sched[s].pc = "stored" /\ s \in DOMAIN sched' /\ sched'[s].pc # "stored"

\* the rate limit lets the target fire: no last_fired, or alarm_rate has passed
Eligible(s) ==
    \/ hostKey(sched[s].orgName, sched[s].host) \notin DOMAIN lastAlarms
    \/ now >= lastAlarms[hostKey(sched[s].orgName, sched[s].host)] + AlarmRate

\* C4: while no reload is in progress, an alarm evaluation dispatches exactly
\* when the data point exceeds a threshold of the target's entry in the live
\* registry (and the handler of that entry is real and the rate limit allows).
ThresholdsReadFromRegistry ==
    [][\A s \in DOMAIN sched :
          (Evaluated(s) /\ watch.pc = "idle" /\ InRegistry(s)) =>
              (sched'[s].pc = "alarm" <=>
                  /\ ~alarmSkipped(RegistryHost(s))
                  /\ alarmReasons(RegistryHost(s), sched[s].result) # {}
                  /\ Eligible(s))]_vars

\* C5: while no DNS refresh is in progress, every probe of a hostname target
\* goes to the resolved address its registry entry holds, and every data point
\* enqueued for it carries that address as resolved_ip and the hostname as ip.
ProbesUseRegistryAddress ==
    [][\A s \in DOMAIN sched :
          (dns.pc = "idle" /\ sched[s].host.IsDNSName /\ InRegistry(s) /\ s \in DOMAIN sched') =>
              /\ (sched[s].pc = "select" /\ sched'[s].pc = "pinging") =>
                     TargetIP(sched[s].host) = RegistryHost(s).ResolvedIP
              /\ (sched[s].pc = "pinging" /\ sched'[s].pc = "enqueued") =>
                     /\ batchPoints'[Len(batchPoints')].resolved_ip = RegistryHost(s).ResolvedIP
                     /\ batchPoints'[Len(batchPoints')].ip = RegistryHost(s).IP]_vars

\* C6: when every reload fails, the registry at rest (no reload in progress)
\* holds exactly the targets it held at startup, which are the targets the
\* schedulers were started for.
FailedReloadKeepsRegistry ==
    (phase = "Running" /\ watch.pc = "idle") => KeysOf(Registry) = SchedKeys

\* C7: when the process has exited, no data point is left in the batch queue.
ExitLeavesNoPendingPoint == phase = "Exited" => batchPoints = <<>>

\* C8: any two handler dispatches for the same (organization, name) are at
\* least alarm_rate seconds apart.
DispatchesAreSpaced ==
    \A i, j \in 1 .. Len(alarmsFired) :
        (i < j /\ alarmsFired[i].OrgName = alarmsFired[j].OrgName
               /\ alarmsFired[i].Name = alarmsFired[j].Name) =>
            alarmsFired[j].At - alarmsFired[i].At >= AlarmRate

\* C9: an alarm evaluation never writes last_fired; last_fired changes only
\* in the step that dispatches a handler, which sets the target's entry to the
\* current time and leaves the others; and an evaluation of a data point that
\* exceeds a threshold goes on to dispatch exactly when the target has no
\* last_fired or the current time is at or after last_fired + alarm_rate.
LastFiredDiscipline ==
    [][/\ \A s \in DOMAIN sched :
             Evaluated(s) =>
                 /\ lastAlarms' = lastAlarms
                 /\ alarmsFired' = alarmsFired
                 /\ (~alarmSkipped(sched[s].host)
                        /\ alarmReasons(sched[s].host, sched[s].result) # {}) =>
                       (sched'[s].pc = "alarm" <=> Eligible(s))
       /\ (lastAlarms' # lastAlarms \/ alarmsFired' # alarmsFired) =>
             \E s \in DOMAIN sched :
                 LET key == hostKey(sched[s].orgName, sched[s].host)
                 IN  /\ sched[s].pc = "alarm"
                     /\ Len(alarmsFired') = Len(alarmsFired) + 1
                     /\ alarmsFired'[Len(alarmsFired')].At = now
                     /\ alarmsFired'[Len(alarmsFired')].Name = sched[s].host.Name
                     /\ DOMAIN lastAlarms' = (DOMAIN lastAlarms) \cup {key}
                     /\ lastAlarms'[key] = now
                     /\ \A k \in (DOMAIN lastAlarms) \ {key} : lastAlarms'[k] = lastAlarms[k]]_vars

\* C9 witness: a single scheduler has dispatched twice, the second time
\* exactly alarm_rate after the first, and last_fired is the second time
RefiredAfterAlarmRate ==
    /\ Len(sched) = 1
    /\ Len(alarmsFired) = 2
    /\ alarmsFired[2].At = alarmsFired[1].At + AlarmRate
    /\ lastAlarms[hostKey(sched[1].orgName, sched[1].host)] = alarmsFired[2].At

\* C10: the registry holds no two targets with the same (organization, name).
NoDuplicateTargets ==
    \A i, j \in 1 .. Len(RegistryTargets) :
        i # j => ~ /\ RegistryTargets[i].OrgName = RegistryTargets[j].OrgName
                   /\ RegistryTargets[i].Host.Name = RegistryTargets[j].Host.Name

\* C11: whenever the process runs and no reload is in progress, the registry
\* holds at most max_concurrent_pings x datapoint_time targets and at most
\* 10,000; a targets file above the capacity never gets the process running.
RegistryWithinCapacity ==
    /\ (phase = "Running" /\ watch.pc = "idle") =>
           /\ Len(RegistryTargets) <= MaxConcurrentPings * DataPointTime
           /\ Len(RegistryTargets) <= MaxTotalHosts
    /\ (phase = "Validating" /\ Len(RegistryTargets) > MaxConcurrentPings * DataPointTime) =>
           ~ENABLED (startPingMonitoring /\ phase' = "Running")

\* the step of performDNSPreflightChecks
PreflightStep == phase = "Resolving" /\ phase' = "Validating"

\* C12: the pre-flight keeps every target given as an IP literal and every
\* hostname target it resolved, drops the others, and the startup never fails
\* for it: with every target dropped the process still does not crash.
PreflightNeverFailsStartup ==
    [][/\ PreflightStep =>
            LET before == RegistryTargets
                after == Targets(maps'[targets'.Organizations])
            IN  /\ \A i \in 1 .. Len(before) :
                      ~isDNSName(before[i].Host.IP) =>
                          \E j \in 1 .. Len(after) :
                              /\ after[j].OrgName = before[i].OrgName
                              /\ after[j].Host.Name = before[i].Host.Name
                /\ \A j \in 1 .. Len(after) :
                      isDNSName(after[j].Host.IP) => after[j].Host.ResolvedIP \in IPLiterals
       /\ phase' # "Panicked"]_vars

\* C13: the queue length an enqueue reads is the length it produced, and when
\* that length is influx_batch_size or more the same data-point completion
\* flushes before it returns: the queue is empty and every queued point has
\* been written.
SizeFlushOnEnqueue ==
    [][\A s \in DOMAIN sched :
          /\ (sched[s].pc = "pinging" /\ sched'[s].pc = "enqueued") =>
                 sched'[s].batchSize = Len(batchPoints')
          /\ (sched[s].pc = "enqueued" /\ sched'[s].pc # "enqueued"
                 /\ sched[s].batchSize >= InfluxBatchSize) =>
                 /\ batchPoints' = <<>>
                 /\ sink' = sink \o batchPoints]_vars

\* a data-point completion has just returned from its size-triggered flush
SizeFlushDone ==
    \E s \in DOMAIN sched :
        /\ sched[s].pc = "stored"
        /\ sched[s].batchSize >= InfluxBatchSize
        /\ batchPoints = <<>>
        /\ Len(sink) >= InfluxBatchSize

\* C14: at every tick of the batch timer at which the queue is not empty, the
\* queue is flushed.
TimerTickFlushes ==
    [][(batchTimer'.next # batchTimer.next /\ batchPoints # <<>>) =>
          (batchPoints' = <<>> /\ sink' = sink \o batchPoints)]_vars

\* C15: with dns_refresh = 0 in config.toml no DNS refresh task exists.
ZeroDisablesRefresh == config.dns_refresh = 0 => dns.pc = "none"

\* the step in which a refresh cycle goes through organization o
RefreshedOrg(o) == dns.pc = "range" /\ o \in dns.todo /\ o \notin dns'.todo

\* C16: a refresh cycle (no reload being in progress) looks up every target of
\* the registry whose address is a hostname: going through an organization
\* counts as many lookups as the organization has hostname targets.
RefreshLooksUpEveryHostname ==
    [][\A o \in OrgNames :
          (RefreshedOrg(o) /\ watch.pc = "idle" /\ dns.ranged = targets.Organizations) =>
              LET hosts == Registry[o]
              IN  dns'.checked - dns.checked =
                      Cardinality({i \in 1 .. Len(hosts) : isDNSName(hosts[i].IP)})]_vars

\* the sequence without the elements at the indices in skip
RECURSIVE Without(_, _)
Without(seq, skip) ==
    IF seq = <<>> THEN <<>>
    ELSE LET n == Len(seq)
             init == Without(SubSeq(seq, 1, n - 1), skip)
         IN  IF n \in skip THEN init ELSE Append(init, seq[n])

\* C17: in a refresh cycle, whatever the lookups answer, a hostname target
\* whose lookup fails keeps its registry entry as it was, the failed lookups
\* write nothing to the DNS cache (the cache is what the cycle without them
\* makes it), and every hostname target whose lookup succeeds is processed:
\* it gets the address looked up and the time of the check.
FailedLookupChangesNothing ==
    dns.pc = "range" =>
        \A o \in dns.todo :
            LET hosts == maps[dns.ranged][o]
            IN  \A answers \in [1 .. Len(hosts) -> Lookups] :
                  LET updated == RefreshHosts(hosts, answers, now)
                      failed == {i \in 1 .. Len(hosts) :
                                    hosts[i].IsDNSName /\ resolveDNSName(answers[i]).err}
                  IN  /\ Len(updated) = Len(hosts)
                      /\ \A i \in failed : updated[i] = hosts[i]
                      /\ \A i \in (1 .. Len(hosts)) \ failed :
                             hosts[i].IsDNSName =>
                                 /\ updated[i].ResolvedIP = resolveDNSName(answers[i]).ip
                                 /\ updated[i].LastDNSCheck = now
                      /\ RefreshCache(cache, hosts, answers, now) =
                             RefreshCache(cache, Without(hosts, failed),
                                          Without(answers, failed), now)

\* a cycle has ended in which one of two hostname targets failed to resolve
\* and kept its entry while the other was checked
OneFailedOneChecked ==
    /\ dns.pc = "idle" /\ dns.checked = 2 /\ dns.errors = 1
    /\ \E i, j \in 1 .. Len(RegistryTargets) :
          /\ RegistryTargets[i].Host.IsDNSName /\ RegistryTargets[j].Host.IsDNSName
          /\ RegistryTargets[i].Host.LastDNSCheck < RegistryTargets[j].Host.LastDNSCheck
          /\ RegistryTargets[i].Host.ResolvedIP \in IPLiterals

\* the step in which a scheduler's triggerAlarm starts the handler
Dispatched(s) == sched[s].pc = "alarm" /\ s \in DOMAIN sched' /\ sched'[s].pc # "alarm"

\* C18: for a data point that is evaluated (real handler, rate limit passed),
\* the handler is dispatched exactly when a channel is triggered: rtt when
\* alarmping > 0 and the average RTT is above it, loss when alarmloss > 0 and
\* the loss percentage is above it, jitter when alarmjitter > 0 and the jitter
\* is above it; the reasons the handler gets are exactly those channels.
DispatchIffChannelTriggered ==
    [][\A s \in DOMAIN sched :
          LET h == sched[s].host
              d == sched[s].result
              rtt == h.AlarmPing > 0 /\ d.AvgRTT > h.AlarmPing * UnitsPerMs
              loss == h.AlarmLoss > 0 /\ d.PacketLoss.num > h.AlarmLoss * d.PacketLoss.den
              jitter == h.AlarmJitter > 0 /\ d.Jitter > h.AlarmJitter * UnitsPerMs
              triggered == {c \in {"ping_time", "packet_loss", "jitter"} :
                               \/ c = "ping_time" /\ rtt
                               \/ c = "packet_loss" /\ loss
                               \/ c = "jitter" /\ jitter}
          IN  /\ (Evaluated(s) /\ ~alarmSkipped(h) /\ Eligible(s)) =>
                     /\ sched'[s].pc = "alarm" <=> triggered # {}
                     /\ sched'[s].pc = "alarm" => sched'[s].reasons = triggered
              /\ Dispatched(s) =>
                     /\ Len(alarmsFired') = Len(alarmsFired) + 1
                     /\ alarmsFired'[Len(alarmsFired')].Reasons = triggered
              /\ (Len(alarmsFired') # Len(alarmsFired)) =>
                     \E t \in DOMAIN sched : Dispatched(t)]_vars

\* two data points have been evaluated: the first only reached its thresholds
\* (1 ms, 50 % loss) and was let through, the second was dispatched for two
\* channels at once
TwoChannelsDispatched ==
    /\ Len(sink) = 2 /\ Len(alarmsFired) = 1
    /\ sink[1].rtt_avg = UnitsPerMs
    /\ sink[1].packet_loss.num = 50 * sink[1].packet_loss.den
    /\ alarmsFired[1].Reasons = {"ping_time", "jitter"}
    /\ alarmsFired[1].RTT = sink[2].rtt_avg

NoReceiverFieldNoDispatch ==
    \A s \in DOMAIN sched :
        sched[s].host.AlarmReceiver = "" =>
            /\ sched[s].pc # "alarm"
            /\ \A i \in 1 .. Len(alarmsFired) :
                   ~(alarmsFired[i].OrgName = sched[s].orgName
                        /\ alarmsFired[i].Name = sched[s].host.Name)

\* the target of scheduler s has had its handler dispatched less than
\* alarm_rate ago
OwnAlarmRecent(s) ==
    \E i \in 1 .. Len(alarmsFired) :
        /\ alarmsFired[i].OrgName = sched[s].orgName
        /\ alarmsFired[i].Name = sched[s].host.Name
        /\ now - alarmsFired[i].At < AlarmRate

\* C21: the rate limit is per (organization, name): a data point that exceeds
\* a threshold of a target with a real handler is dispatched unless the
\* handler was dispatched for that same target less than alarm_rate ago,
\* whatever was dispatched for other targets.
RateLimitPerTarget ==
    [][\A s \in DOMAIN sched :
          (/\ Evaluated(s)
           /\ ~alarmSkipped(sched[s].host)
           /\ alarmReasons(sched[s].host, sched[s].result) # {}
           /\ ~OwnAlarmRecent(s)) => sched'[s].pc = "alarm"]_vars

\* C22: whenever the process runs and no reload is in progress, the alarm
\* state has entries only for targets of the registry.
AlarmStateOnlyForRegistry ==
    (phase = "Running" /\ watch.pc = "idle") =>
        DOMAIN lastAlarms \subseteq
            {hostKey(RegistryTargets[i].OrgName, RegistryTargets[i].Host) :
                i \in 1 .. Len(RegistryTargets)}

\* C23: a probe is sent from the target's pingsource when it is an address,
\* by OS routing when it is "default", and else from the global ping_source
\* when that is an address, else by OS routing; the source tag of a data
\* point is the source its probes used ("default" for OS routing).
SourceFollowsPriority ==
    [][\A s \in DOMAIN sched :
          LET h == sched[s].host
              wanted == IF h.PingSource = "default" THEN ""
                        ELSE IF h.PingSource # "" THEN h.PingSource
                        ELSE IF config.PingSource \notin {"", "default"} THEN config.PingSource
                        ELSE ""
          IN  /\ (sched[s].pc = "select" /\ sched'[s].pc = "pinging") =>
                     sched'[s].source = wanted
              /\ (sched[s].pc = "pinging" /\ sched'[s].pc = "enqueued") =>
                     batchPoints'[Len(batchPoints')].source =
                         (IF sched[s].source = "" THEN "default" ELSE sched[s].source)]_vars

\* the step in which a scheduler closes a window and enqueues its data point
Enqueued(s) == sched[s].pc = "pinging" /\ s \in DOMAIN sched' /\ sched'[s].pc = "enqueued"

\* C24: a data point is enqueued after exactly datapoint_pings probes of its
\* window, its loss is (datapoint_pings - successes) / datapoint_pings x 100,
\* between 0 and 100, and with no successful probe it has average 0, loss 100
\* and jitter 0; the window that follows starts empty.
DataPointIsWholeWindow ==
    [][\A s \in DOMAIN sched :
          /\ Enqueued(s) =>
                LET point == batchPoints'[Len(batchPoints')]
                    successes == Len(sched'[s].pingData)
                IN  /\ Len(batchPoints') = Len(batchPoints) + 1
                    /\ sched'[s].pingCount = DataPointPings
                    /\ successes <= DataPointPings
                    /\ point.packet_loss.den > 0
                    /\ point.packet_loss.num * DataPointPings =
                           (DataPointPings - successes) * 100 * point.packet_loss.den
                    /\ point.packet_loss.num >= 0
                    /\ point.packet_loss.num <= 100 * point.packet_loss.den
                    /\ point.Timestamp = sched[s].dataPointStartTime
                    /\ successes = 0 =>
                           /\ point.rtt_avg = 0
                           /\ point.packet_loss.num = 100 * point.packet_loss.den
                           /\ point.jitter = 0
          /\ (s \in DOMAIN sched' /\ sched[s].pc \notin {"select", "pinging"}
                 /\ sched'[s].pc = "select") =>
                (sched'[s].pingCount = 0 /\ sched'[s].pingData = <<>>)
          /\ (Len(batchPoints') > Len(batchPoints)) => \E t \in DOMAIN sched : Enqueued(t)]_vars

\* a window with no answer and a window with one probe lost have been emitted
TotalAndPartialLoss ==
    /\ \E i \in 1 .. Len(sink) :
          sink[i].packet_loss.num = 100 * sink[i].packet_loss.den /\ sink[i].rtt_avg = 0
    /\ \E i \in 1 .. Len(sink) :
          /\ sink[i].packet_loss.num > 0
          /\ sink[i].packet_loss.num < 100 * sink[i].packet_loss.den

\* the step in which a scheduler sees the cancellation and returns
Exited(s) == sched[s].pc # "done" /\ s \in DOMAIN sched' /\ sched'[s].pc = "done"

\* C25: a scheduler that sees the cancellation returns without emitting
\* anything and does nothing afterwards; a result is enqueued, and is in front
\* of the alarm check, only when its window had datapoint_pings probes.
PartialWindowDiscarded ==
    [][\A s \in DOMAIN sched :
          /\ Exited(s) => /\ batchPoints' = batchPoints /\ sink' = sink
                          /\ alarmsFired' = alarmsFired /\ lastAlarms' = lastAlarms
          /\ sched[s].pc = "done" => sched'[s] = sched[s]
          /\ Enqueued(s) => sched[s].pingCount + 1 = DataPointPings
          /\ sched[s].pc \in {"enqueued", "stored", "alarm"} =>
                 sched[s].pingCount = DataPointPings]_vars

\* a scheduler has returned in the middle of a window with a sample collected
ExitedMidWindow ==
    \E s \in DOMAIN sched :
        /\ sched[s].pc = "done"
        /\ sched[s].pingCount > 0 /\ sched[s].pingCount < DataPointPings
        /\ sched[s].pingData # <<>>

\* C26: when the process has exited, no alarm handler that was dispatched is
\* still running.
NoHandlerRunningAtExit ==
    phase = "Exited" => \A i \in 1 .. Len(alarmsFired) : ~alarmsFired[i].Running

\* C27: when the process has exited, the sink has been closed and every point
\* written to it has been handed to the server.
SinkClosedAtExit ==
    phase = "Exited" => (influx.closed /\ influx.sent = Len(sink))

\* C28: once the root context is cancelled, every scheduler, the DNS refresh
\* task, the file watcher and the batch timer return, the shutdown wait
\* returns and the process reaches Exited.
CancelLeadsToExit == cancelled ~> phase = "Exited"

\* the process has exited after data points were written and with the clock advanced
ExitedAfterWork == phase = "Exited" /\ cancelled /\ Len(sink) > 0 /\ now > 0

\* C29: after startup, with no reload in progress, every registry target has a
\* resolved address and the right DNS flag: an IP literal is its own resolved
\* address with the flag false, a hostname has the flag true and an address
\* that a lookup gave.
RegistryTargetsResolved ==
    (phase = "Running" /\ watch.pc = "idle") =>
        \A i \in 1 .. Len(RegistryTargets) :
            LET host == RegistryTargets[i].Host
            IN  /\ host.ResolvedIP # ""
                /\ host.IsDNSName = isDNSName(host.IP)
                /\ ~isDNSName(host.IP) => host.ResolvedIP = host.IP
                /\ isDNSName(host.IP) => ParseIP(host.ResolvedIP)

\* C30: a hot reload of unchanged files reads the include files that startup
\* read: the registry it builds has the targets of the old one and the diff
\* is empty.
UnchangedFilesReloadAlike ==
    [][ApplyStep =>
          /\ ReloadDiff.added = <<>>
          /\ ReloadDiff.removed = {}
          /\ KeysOf(maps[watch.newTargets.Organizations])
                = KeysOf(maps[watch.oldTargets.Organizations])]_vars

\* C31: no task observes a reload candidate that is not validated yet as the
\* live registry: a DNS refresh that starts while reloadTargets validates its
\* candidate does not range over the candidate.
CandidateNeverObserved ==
    [][(dns.pc = "idle" /\ dns'.pc = "range") =>
          ~(watch.pc = "swapped" /\ dns'.ranged = watch.newTargets.Organizations)]_vars

\* performDNSRefreshCheck is inside its range loop at an organization that
\* has a hostname host: resolveDNSName (LookupHost, up to 5 s) is called for it
AwaitingLookup ==
    /\ dns.pc = "range"
    /\ \E o \in dns.todo : \E i \in 1 .. Len(maps[dns.ranged][o]) :
           maps[dns.ranged][o][i].IsDNSName

\* C32: while the registry write lock is held, its holder is not waiting on a
\* DNS lookup.
NoLookupUnderWriteLock == targetsMux = "dns" => ~AwaitingLookup

\* every registry target of hostname h has the address the cache holds for h
SharersAgree(h) ==
    \A i \in 1 .. Len(RegistryTargets) :
        RegistryTargets[i].Host.IP = h =>
            RegistryTargets[i].Host.ResolvedIP = cache[h].ResolvedIP

\* C33: in a refresh step, the change counter of a hostname goes up by exactly
\* one when the address of the hostname changes and stays when it does not,
\* also when several targets share the hostname (all of them holding the
\* cached address before and after the step).
ChangeCounterCountsChanges ==
    [][\A h \in DOMAIN cache :
          (h \in DOMAIN cache' /\ SharersAgree(h) /\ SharersAgree(h)') =>
              cache'[h].DNSChanges - cache[h].DNSChanges =
                  IF cache'[h].ResolvedIP # cache[h].ResolvedIP THEN 1 ELSE 0]_vars

\* the (organization, name, original address) triples of a registry
Triples(orgs) ==
    {<<Targets(orgs)[i].OrgName, Targets(orgs)[i].Host.Name, Targets(orgs)[i].Host.IP>> :
        i \in 1 .. Len(Targets(orgs))}

TriplesOf(infos) ==
    {<<infos[i].OrgName, infos[i].Host.Name, infos[i].Host.IP>> : i \in 1 .. Len(infos)}

\* C34: the diff of a reload partitions the targets by their triple:
\* unchanged is the triples in both registries, added the triples only in
\* the new one, removed the triples only in the old one.
DiffPartitionsByTriple ==
    [][ApplyStep =>
          LET old == Triples(maps[watch.oldTargets.Organizations])
              new == Triples(maps[watch.newTargets.Organizations])
          IN  /\ TriplesOf(ReloadDiff.unchanged) = new \cap old
              /\ TriplesOf(ReloadDiff.added) = new \ old
              /\ ReloadDiff.removed = {t[1] \o "_" \o t[2] \o "_" \o t[3] : t \in old \ new}]_vars

\* C35: a burst of Write events, each less than debounceDelay after the one
\* before, causes one reload: the timers its events set request at most one.
OneReloadPerBurst == burst.caused <= 1

\* C36: when a reload is applied, every include file the new target set names
\* (that exists, under the path the reload opened) is in the watch set.
IncludesWatchedAfterReload ==
    [][ApplyStep =>
          \A i \in Range(watch.newTargets.Include) :
              OpenPath(i) \in DOMAIN files => OpenPath(i) \in watched']_vars

\* C37: of N targets started together, worker k (counted from 0) delays
\* min(k * (pingInterval / N), 100 ms), in microseconds.
StaggerIsCapped ==
    \A s \in DOMAIN sched :
        LET k == s - 1
            share == k * (pingInterval \div Len(sched))
        IN  sched[s].delay = IF share > 100000 THEN 100000 ELSE share

\* C38: the timestamp of every data point is the time at which the first
\* probe of its window was issued.
TimestampIsFirstProbe ==
    [][\A s \in DOMAIN sched :
          Enqueued(s) =>
              batchPoints'[Len(batchPoints')].Timestamp = sched[s].firstProbe]_vars

\* C39: under any interleaving of enqueues, size-triggered flushes, timer
\* flushes and the shutdown flush, the points handed to the sink followed by
\* the points still queued are the enqueue sequence: a step appends at most
\* one point to it and changes nothing else, a flush hands over the whole
\* queue in its order and empties it, and the points of one target are in
\* the sink in the order of their windows (no point before one of an earlier
\* window start).
FlushKeepsEnqueueOrder ==
    [][LET before == sink \o batchPoints
           after == sink' \o batchPoints'
       IN  /\ \/ after = before
              \/ after = Append(before, after[Len(after)])
           /\ sink' # sink => sink' = sink \o batchPoints /\ batchPoints' = <<>>
           /\ \A i, j \in 1 .. Len(sink') :
                 i < j /\ sink'[i].host = sink'[j].host /\ sink'[i].organization = sink'[j].organization
                     => sink'[i].Timestamp <= sink'[j].Timestamp]_vars

\* the shutdown flush has run after more than one flush, the sink holding
\* points of both targets enqueued in turn
SinkOfBothAfterShutdown ==
    /\ batchTimer.pc = "done" /\ cancelled
    /\ batchPoints = <<>>
    /\ Len(sink) > InfluxBatchSize
    /\ \E i, j \in 1 .. Len(sink) : i < j /\ j < Len(sink)
          /\ sink[i].host # sink[j].host /\ sink[j + 1].host = sink[i].host

\* the target set the files describe: the targets file and its includes,
\* relative paths resolved against the directory of the targets file
DescribedOrgs ==
    LoadIncludes(files, files[targetsFile].Organizations, files[targetsFile].Include, TRUE)

FilesValid ==
    /\ ~loadAndValidateTargetsFile(files, targetsFile, TRUE)
    /\ ~validateCompleteTargets(DescribedOrgs)

\* C40: no file-change notification is lost: after the last Write event on a
\* watched file a reload that reads the files as they are then eventually
\* runs, so from some moment on, whenever the files are valid, the registry
\* holds the targets the files describe.
ReloadCatchesUp ==
    <>[]((phase = "Running" /\ FilesValid) => KeysOf(Registry) = KeysOf(DescribedOrgs))

====
